---------------------------- MODULE Spec2Model ----------------------------
(***************************************************************************)
(* Model of src/Telegram-bot.py: the StudentProcessorBot reconciliation    *)
(* engine (convert_grade, read_students_list, get_available_tests,         *)
(* categorize_test, find_student_in_results, process_data) and the         *)
(* handlers of the bot (start, button_handler, handle_document).           *)
(*                                                                         *)
(* Text is modelled as a sequence of Unicode code points, so that          *)
(* lower(), split(), strip(), replace() and the substring test "in" are    *)
(* computed character by character as Python computes them.  Python       *)
(* values are tagged records:                                              *)
(*   [nan |-> TRUE]   a missing cell (NaN / None)                          *)
(*   [str |-> s]      a str, s its code points                             *)
(*   [int |-> n]      an int                                               *)
(*   [f10 |-> n]      a float with one decimal, n tenths                   *)
(***************************************************************************)
EXTENDS Integers, Sequences, FiniteSets, TLC

VARIABLES
    grade,            \* convert_grade: the argument
    converted,        \* convert_grade: <<"idle">>, <<"pending">> or <<"return", value>>
    test_name,        \* categorize_test: the argument
    categorized,      \* categorize_test: <<"idle">>, <<"pending">> or <<"return", pair>>
    df_results,       \* the results table: [columns |-> headers, rows |-> rows of cells]
    available_tests,  \* get_available_tests: <<"idle">>, <<"pending">> or <<"return", lists>>
    student_name,     \* find_student_in_results: the argument
    found,            \* find_student_in_results: the values returned by the calls so far
    user_sessions,    \* bot_processor.user_sessions: user id -> session
    processed,        \* process_data: <<"idle">>, <<"pending">>, <<"return", result>>
                      \*               or <<"raise", exception>>
    file_content,     \* read_students_list: the uploaded workbook
    students_list,    \* read_students_list: <<"idle">>, <<"pending">>, <<"return", dict>>
                      \*                     or <<"raise", exception>>
    last_event,       \* the update handled last and what the bot sent in reply
    events            \* the number of updates handled so far, up to MaxEvents

gradeVars == <<grade, converted>>
categorizeVars == <<test_name, categorized>>
testsVars == <<df_results, available_tests>>
findVars == <<student_name, found>>
processVars == <<user_sessions, processed>>
rosterVars == <<file_content, students_list>>
botVars == <<last_event, events>>

vars == <<grade, converted, test_name, categorized, df_results, available_tests,
          student_name, found, user_sessions, processed, file_content, students_list,
          last_event, events>>

---------------------------------------------------------------------------
(* Python values *)

NaN == [nan |-> TRUE]
PyStr(s) == [str |-> s]
PyInt(n) == [int |-> n]
PyFloat10(n) == [f10 |-> n]

IsNaN(v) == "nan" \in DOMAIN v
IsStr(v) == "str" \in DOMAIN v
IsInt(v) == "int" \in DOMAIN v
IsFloat10(v) == "f10" \in DOMAIN v

None == [none |-> TRUE]

(* pd.isna(x) / pd.notna(x) on a scalar: NaN and None are missing *)
isna(v) == IsNaN(v) \/ v = None
notna(v) == ~isna(v)

---------------------------------------------------------------------------
(* str methods, on sequences of code points *)

\* str.isspace() for one character (ASCII and Latin-1 white space)
IsSpace(c) == c \in {9, 10, 11, 12, 13, 28, 29, 30, 31, 32, 133, 160}

IsDigit(c) == c \in 48..57

\* str.lower() for one character: Latin A-Z, Cyrillic U+0410..U+042F, U+0401
LowerChar(c) ==
    IF c \in 65..90 \/ c \in 1040..1071 THEN c + 32
    ELSE IF c = 1025 THEN 1105
    ELSE c

\* s.lower()
lower(s) == [i \in 1..Len(s) |-> LowerChar(s[i])]

\* sub in s
Contains(sub, s) ==
    \E i \in 0..(Len(s) - Len(sub)) : SubSeq(s, i + 1, i + Len(sub)) = sub

RECURSIVE lstrip(_)
lstrip(s) == IF s # <<>> /\ IsSpace(Head(s)) THEN lstrip(Tail(s)) ELSE s

RECURSIVE rstrip(_)
rstrip(s) ==
    IF s # <<>> /\ IsSpace(s[Len(s)]) THEN rstrip(SubSeq(s, 1, Len(s) - 1)) ELSE s

\* s.strip()
strip(s) == rstrip(lstrip(s))

\* s.split(): the maximal runs of non-space characters, in order
RECURSIVE SplitFrom(_, _, _)
SplitFrom(s, i, cur) ==
    IF i > Len(s) THEN (IF cur = <<>> THEN <<>> ELSE <<cur>>)
    ELSE IF IsSpace(s[i])
         THEN (IF cur = <<>> THEN <<>> ELSE <<cur>>) \o SplitFrom(s, i + 1, <<>>)
         ELSE SplitFrom(s, i + 1, Append(cur, s[i]))

split(s) == SplitFrom(s, 1, <<>>)

\* ' '.join(parts)
RECURSIVE join(_)
join(parts) ==
    IF parts = <<>> THEN <<>>
    ELSE IF Len(parts) = 1 THEN parts[1]
    ELSE parts[1] \o <<32>> \o join(Tail(parts))

\* s.replace(',', '.')
replace_comma(s) == [i \in 1..Len(s) |-> IF s[i] = 44 THEN 46 ELSE s[i]]

\* str(n) for an int n >= 0
RECURSIVE NatStr(_)
NatStr(n) == IF n < 10 THEN <<48 + n>> ELSE NatStr(n \div 10) \o <<48 + (n % 10)>>

\* str(v) for the modelled Python values
str(v) ==
    IF IsStr(v) THEN v.str
    ELSE IF IsInt(v)
         THEN (IF v.int < 0 THEN <<45>> \o NatStr(-v.int) ELSE NatStr(v.int))
    ELSE IF IsFloat10(v)
         THEN (IF v.f10 < 0
               THEN <<45>> \o NatStr((-v.f10) \div 10) \o <<46>> \o NatStr((-v.f10) % 10)
               ELSE NatStr(v.f10 \div 10) \o <<46>> \o NatStr(v.f10 % 10))
    ELSE <<110, 97, 110>>    \* 'nan'

---------------------------------------------------------------------------
(* float(s): Python's float grammar restricted to the characters the model *)
(* draws (digits, sign, '.', white space; no exponent, inf, nan, '_').     *)
(* The value is the exact decimal [num, den]; ValueError otherwise.        *)

ValueError == [error |-> "ValueError"]

RECURSIVE DigitsValue(_)
DigitsValue(ds) ==
    IF ds = <<>> THEN 0 ELSE 10 * DigitsValue(SubSeq(ds, 1, Len(ds) - 1)) + (ds[Len(ds)] - 48)

RECURSIVE Pow10(_)
Pow10(k) == IF k = 0 THEN 1 ELSE 10 * Pow10(k - 1)

AllDigits(ds) == \A i \in 1..Len(ds) : IsDigit(ds[i])

\* the unsigned part: digits [ '.' [digits] ]  |  '.' digits
UnsignedFloat(body) ==
    LET dots == {i \in 1..Len(body) : body[i] = 46} IN
    IF dots = {}
    THEN (IF body # <<>> /\ AllDigits(body)
          THEN [num |-> DigitsValue(body), den |-> 1]
          ELSE ValueError)
    ELSE IF Cardinality(dots) > 1 THEN ValueError
    ELSE LET d == CHOOSE i \in dots : TRUE
             ip == SubSeq(body, 1, d - 1)
             fp == SubSeq(body, d + 1, Len(body))
         IN  IF AllDigits(ip) /\ AllDigits(fp) /\ Len(ip) + Len(fp) > 0
             THEN [num |-> DigitsValue(ip \o fp), den |-> Pow10(Len(fp))]
             ELSE ValueError

float(s) ==
    LET t == strip(s) IN
    IF t = <<>> THEN ValueError
    ELSE IF Head(t) \in {43, 45}
         THEN LET u == UnsignedFloat(Tail(t)) IN
              IF u = ValueError THEN ValueError
              ELSE [num |-> (IF Head(t) = 45 THEN -u.num ELSE u.num), den |-> u.den]
    ELSE UnsignedFloat(t)

---------------------------------------------------------------------------
(* StudentProcessorBot.convert_grade *)

\* the string 'н' (U+043D), returned for "no grade"
NOT_AVAILABLE == PyStr(<<1085>>)

\* convert_grade with strict comparisons (g > 9 instead of g >= 9, ...)
convert_grade_strict(g) ==
    IF isna(g) \/ g = PyStr(<<45>>) \/ g = PyStr(<<>>) THEN NOT_AVAILABLE
    ELSE LET grade_num == float(replace_comma(str(g))) IN
         IF grade_num = ValueError THEN NOT_AVAILABLE
         ELSE IF grade_num.num > 9 * grade_num.den THEN PyInt(5)
         ELSE IF grade_num.num > 7 * grade_num.den THEN PyInt(4)
         ELSE IF grade_num.num > 5 * grade_num.den THEN PyInt(3)
         ELSE IF grade_num.num > 3 * grade_num.den THEN PyInt(2)
         ELSE PyInt(1)

\* convert_grade without the except clause: the ValueError of float() escapes
convert_grade_uncaught(g) ==
    IF isna(g) \/ g = PyStr(<<45>>) \/ g = PyStr(<<>>) THEN NOT_AVAILABLE
    ELSE LET grade_num == float(replace_comma(str(g))) IN
         IF grade_num = ValueError THEN ValueError
         ELSE IF grade_num.num >= 9 * grade_num.den THEN PyInt(5)
         ELSE IF grade_num.num >= 7 * grade_num.den THEN PyInt(4)
         ELSE IF grade_num.num >= 5 * grade_num.den THEN PyInt(3)
         ELSE IF grade_num.num >= 3 * grade_num.den THEN PyInt(2)
         ELSE PyInt(1)

convert_grade(g) ==
    IF isna(g) \/ g = PyStr(<<45>>) \/ g = PyStr(<<>>) THEN NOT_AVAILABLE
    ELSE LET grade_num == float(replace_comma(str(g))) IN
         IF grade_num = ValueError THEN NOT_AVAILABLE
         ELSE IF grade_num.num >= 9 * grade_num.den THEN PyInt(5)
         ELSE IF grade_num.num >= 7 * grade_num.den THEN PyInt(4)
         ELSE IF grade_num.num >= 5 * grade_num.den THEN PyInt(3)
         ELSE IF grade_num.num >= 3 * grade_num.den THEN PyInt(2)
         ELSE PyInt(1)

---------------------------------------------------------------------------
(* StudentProcessorBot.categorize_test and get_available_tests *)

kw_test == <<1090, 1077, 1089, 1090>>                              \* U+0442 0435 0441 0442
kw_final_long == <<1080, 1090, 1086, 1075, 1086, 1074, 1099, 1081>> \* U+0438 0442 043E 0433 043E 0432 044B 0439
kw_final == <<1080, 1090, 1086, 1075>>                             \* U+0438 0442 043E 0433
kw_lecture == <<1083, 1077, 1082, 1094>>                           \* U+043B 0435 043A 0446

\* categorize_test testing the lecture keyword before the final keywords
categorize_test_lecture_first(name) ==
    LET test_lower == lower(str(name)) IN
    IF Contains(kw_lecture, test_lower) THEN <<"lecture", name>>
    ELSE IF Contains(kw_final_long, test_lower) \/ Contains(kw_final, test_lower)
         THEN <<"final", name>>
    ELSE <<"lab", name>>

categorize_test(name) ==
    LET test_lower == lower(str(name)) IN
    IF Contains(kw_final_long, test_lower) \/ Contains(kw_final, test_lower)
    THEN <<"final", name>>
    ELSE IF Contains(kw_lecture, test_lower) THEN <<"lecture", name>>
    ELSE <<"lab", name>>

\* a < b for two str values: Python compares code point by code point
RECURSIVE StrLess(_, _)
StrLess(a, b) ==
    IF b = <<>> THEN FALSE
    ELSE IF a = <<>> THEN TRUE
    ELSE IF Head(a) # Head(b) THEN Head(a) < Head(b)
    ELSE StrLess(Tail(a), Tail(b))

\* list.sort(key=lambda x: x[1]): stable, ascending by the display name
RECURSIVE InsertByName(_, _)
InsertByName(sorted, x) ==
    IF sorted = <<>> THEN <<x>>
    ELSE IF StrLess(str(x[2]), str(sorted[Len(sorted)][2]))
         THEN Append(InsertByName(SubSeq(sorted, 1, Len(sorted) - 1), x), sorted[Len(sorted)])
         ELSE Append(sorted, x)

\* the lists left in the order of the input columns
sort_by_name_input_order(l) == l

RECURSIVE sort_by_name(_)
sort_by_name(l) ==
    IF l = <<>> THEN <<>>
    ELSE InsertByName(sort_by_name(SubSeq(l, 1, Len(l) - 1)), l[Len(l)])

\* a column filter that accepts any of the test, lecture and final keywords
IsTestColumn_any_keyword(col) ==
    LET l == lower(str(col)) IN
    \/ Contains(kw_test, l) \/ Contains(kw_lecture, l)
    \/ Contains(kw_final, l) \/ Contains(kw_final_long, l)

\* line 67: the test keyword occurs in str(col).lower()
IsTestColumn(col) == Contains(kw_test, lower(str(col)))

\* the (test_col, test_name) pairs of one category, in column order
TestsOfCategory(test_columns, cat) ==
    LET InCat(col) == categorize_test(col)[1] = cat
        cols == SelectSeq(test_columns, InCat)
    IN  [i \in 1..Len(cols) |-> <<cols[i], categorize_test(cols[i])[2]>>]

get_available_tests(df) ==
    LET test_columns == SelectSeq(df.columns, IsTestColumn) IN
    [lecture |-> sort_by_name(TestsOfCategory(test_columns, "lecture")),
     lab     |-> sort_by_name(TestsOfCategory(test_columns, "lab")),
     final   |-> sort_by_name(TestsOfCategory(test_columns, "final"))]

---------------------------------------------------------------------------
(* StudentProcessorBot.find_student_in_results *)

kw_fio == <<1092, 1080, 1086>>                               \* U+0444 0438 043E
kw_familiya == <<1092, 1072, 1084, 1080, 1083, 1080, 1103>>  \* U+0444 0430 043C 0438 043B 0438 044F
kw_imya == <<1080, 1084, 1103>>                              \* U+0438 043C 044F
kw_student == <<1089, 1090, 1091, 1076, 1077, 1085, 1090>>   \* U+0441 0442 0443 0434 0435 043D 0442

\* line 107-108: the header names a column of student names
IsNameColumn(col) ==
    LET col_lower == lower(str(col)) IN
    \E keyword \in {kw_fio, kw_familiya, kw_imya, kw_student} : Contains(keyword, col_lower)

\* a row of the table as iterrows() yields it: a Series indexed by the headers
Series(df, i) == [index |-> df.columns, values |-> df.rows[i]]

\* col in row, row[col]
InSeries(col, row) == \E j \in 1..Len(row.index) : row.index[j] = col
SeriesAt(row, col) == row.values[CHOOSE j \in 1..Len(row.index) : row.index[j] = col]

\* line 102
NormalizeName(name) == join(split(lower(str(name))))

\* the comparison of lines 112-114 requiring every part of the name in the cell
NameMatches_every_part(student_name_norm, result_name) ==
    \/ Contains(student_name_norm, result_name)
    \/ Contains(result_name, student_name_norm)
    \/ LET parts == split(student_name_norm) IN
       \A k \in 1..Len(parts) : Contains(parts[k], result_name)

\* lines 112-114
NameMatches(student_name_norm, result_name) ==
    \/ Contains(student_name_norm, result_name)
    \/ Contains(result_name, student_name_norm)
    \/ LET parts == split(student_name_norm) IN
       \E k \in 1..Len(parts) : Contains(parts[k], result_name)

\* lines 106-115 for one row: some name column holds a cell that matches
RowMatches(student_name_norm, result_row) ==
    \E j \in 1..Len(result_row.index) :
        LET col == result_row.index[j] IN
        /\ IsNameColumn(col)
        /\ notna(SeriesAt(result_row, col))
        /\ NameMatches(student_name_norm, lower(strip(str(SeriesAt(result_row, col)))))

\* the loop of line 104 from row i on (rows are numbered from 1, idx from 0)
RECURSIVE FindFrom(_, _, _)
FindFrom(student_name_norm, df, i) ==
    IF i > Len(df.rows) THEN <<None, None>>
    ELSE IF RowMatches(student_name_norm, Series(df, i)) THEN <<PyInt(i - 1), Series(df, i)>>
    ELSE FindFrom(student_name_norm, df, i + 1)

\* a scan with the loops exchanged: every row of a column before the next column
find_student_column_major(name, df) ==
    LET norm == NormalizeName(name)
        CellHit(i, j) ==
            /\ IsNameColumn(df.columns[j])
            /\ notna(df.rows[i][j])
            /\ NameMatches(norm, lower(strip(str(df.rows[i][j]))))
        hits == {<<j, i>> \in (1..Len(df.columns)) \X (1..Len(df.rows)) : CellHit(i, j)}
    IN  IF hits = {} THEN <<None, None>>
        ELSE LET h == CHOOSE h \in hits :
                        \A g \in hits : h[1] < g[1] \/ (h[1] = g[1] /\ h[2] <= g[2])
             IN  <<PyInt(h[2] - 1), Series(df, h[2])>>

find_student_in_results(name, df) == FindFrom(NormalizeName(name), df, 1)

---------------------------------------------------------------------------
(* StudentProcessorBot.get_available_groups *)

\* sorted(list(set(values))): the least element first
RECURSIVE SortedStrs(_)
SortedStrs(S) ==
    IF S = {} THEN <<>>
    ELSE LET m == CHOOSE x \in S : \A y \in S : ~StrLess(str(y), str(x)) IN
         <<m>> \o SortedStrs(S \ {m})

\* a dict, its (key, value) items in insertion order
Dict(items) == [items |-> items]

get_available_groups(student_dict) ==
    SortedStrs({student_dict.items[i][2] : i \in 1..Len(student_dict.items)})

---------------------------------------------------------------------------
(* StudentProcessorBot.process_data *)

\* the keys 'ФИО' (U+0424 0418 041E) and 'Группа' of a report row
KEY_FIO == PyStr(<<1060, 1048, 1054>>)
KEY_GROUP == PyStr(<<1043, 1088, 1091, 1087, 1087, 1072>>)

\* a list without its repeated elements (the keys of a dict filled in list order)
RECURSIVE Dedup(_)
Dedup(l) ==
    IF l = <<>> THEN <<>>
    ELSE LET d == Dedup(SubSeq(l, 1, Len(l) - 1)) IN
         IF \E i \in 1..Len(d) : d[i] = l[Len(l)] THEN d ELSE Append(d, l[Len(l)])

InList(x, l) == \E i \in 1..Len(l) : l[i] = x

\* lines 139-143: {group: []} for the selected groups, as <<group, rows>> pairs
EmptyByGroup(selected_groups) ==
    LET keys == Dedup(selected_groups) IN [i \in 1..Len(keys) |-> <<keys[i], <<>>>>]

\* an append to one list shared by all groups (dict.fromkeys(selected_groups, []))
AppendRow_shared_list(by_group, group, row) ==
    [i \in 1..Len(by_group) |-> <<by_group[i][1], Append(by_group[i][2], row)>>]

\* data_by_group[group].append(row)
AppendRow(by_group, group, row) ==
    [i \in 1..Len(by_group) |->
        IF by_group[i][1] = group THEN <<group, Append(by_group[i][2], row)>> ELSE by_group[i]]

\* a matched row that stores the cells as they are, without convert_grade
MatchedRow_unconverted(student, group, tests, result_row) ==
    [fio |-> student, group |-> group,
     grades |-> [k \in 1..Len(tests) |->
                    <<tests[k][2],
                      IF InSeries(tests[k][1], result_row)
                      THEN SeriesAt(result_row, tests[k][1])
                      ELSE None>>]]

\* lines 161-164: the row of a matched student, one converted grade per test column
MatchedRow(student, group, tests, result_row) ==
    [fio |-> student, group |-> group,
     grades |-> [k \in 1..Len(tests) |->
                    <<tests[k][2],
                      convert_grade(IF InSeries(tests[k][1], result_row)
                                    THEN SeriesAt(result_row, tests[k][1])
                                    ELSE None)>>]]

\* an unmatched row filled with the lowest mark
UnmatchedRow_lowest_mark(student, group, tests) ==
    [fio |-> student, group |-> group,
     grades |-> [k \in 1..Len(tests) |-> <<tests[k][2], PyInt(1)>>]]

\* lines 188-190: the row of a student that was not found
UnmatchedRow(student, group, tests) ==
    [fio |-> student, group |-> group,
     grades |-> [k \in 1..Len(tests) |-> <<tests[k][2], NOT_AVAILABLE>>]]

\* lines 160-165 / 187-191 for one category
AddCategoryRow(by_group, export, tests, group, row) ==
    IF export /\ tests # <<>> THEN AppendRow(by_group, group, row) ELSE by_group

\* the loop body with found_students incremented once per category row
ProcessStudent_count_per_category(acc, student, group, df, tests, export_lectures, export_labs, export_finals) ==
    LET result_row == find_student_in_results(student, df)[2]
        N(export, ts) == IF export /\ ts # <<>> THEN 1 ELSE 0
    IN
    IF result_row # None
    THEN [found_students |-> acc.found_students + N(export_lectures, tests.lecture)
                             + N(export_labs, tests.lab) + N(export_finals, tests.final),
          not_found_students |-> acc.not_found_students,
          lecture |-> AddCategoryRow(acc.lecture, export_lectures, tests.lecture, group,
                                     MatchedRow(student, group, tests.lecture, result_row)),
          lab     |-> AddCategoryRow(acc.lab, export_labs, tests.lab, group,
                                     MatchedRow(student, group, tests.lab, result_row)),
          final   |-> AddCategoryRow(acc.final, export_finals, tests.final, group,
                                     MatchedRow(student, group, tests.final, result_row))]
    ELSE [found_students |-> acc.found_students,
          not_found_students |-> Append(acc.not_found_students, student),
          lecture |-> AddCategoryRow(acc.lecture, export_lectures, tests.lecture, group,
                                     UnmatchedRow(student, group, tests.lecture)),
          lab     |-> AddCategoryRow(acc.lab, export_labs, tests.lab, group,
                                     UnmatchedRow(student, group, tests.lab)),
          final   |-> AddCategoryRow(acc.final, export_finals, tests.final, group,
                                     UnmatchedRow(student, group, tests.final))]

\* lines 149-203: the body of the loop for one student
ProcessStudent(acc, student, group, df, tests, export_lectures, export_labs, export_finals) ==
    LET result_row == find_student_in_results(student, df)[2] IN
    IF result_row # None
    THEN [found_students |-> acc.found_students + 1,
          not_found_students |-> acc.not_found_students,
          lecture |-> AddCategoryRow(acc.lecture, export_lectures, tests.lecture, group,
                                     MatchedRow(student, group, tests.lecture, result_row)),
          lab     |-> AddCategoryRow(acc.lab, export_labs, tests.lab, group,
                                     MatchedRow(student, group, tests.lab, result_row)),
          final   |-> AddCategoryRow(acc.final, export_finals, tests.final, group,
                                     MatchedRow(student, group, tests.final, result_row))]
    ELSE [found_students |-> acc.found_students,
          not_found_students |-> Append(acc.not_found_students, student),
          lecture |-> AddCategoryRow(acc.lecture, export_lectures, tests.lecture, group,
                                     UnmatchedRow(student, group, tests.lecture)),
          lab     |-> AddCategoryRow(acc.lab, export_labs, tests.lab, group,
                                     UnmatchedRow(student, group, tests.lab)),
          final   |-> AddCategoryRow(acc.final, export_finals, tests.final, group,
                                     UnmatchedRow(student, group, tests.final))]

\* the loop of line 149 over filtered_students, in dict order
RECURSIVE ProcessStudents(_, _, _, _, _, _, _)
ProcessStudents(acc, students, df, tests, export_lectures, export_labs, export_finals) ==
    IF students = <<>> THEN acc
    ELSE ProcessStudents(
             ProcessStudent(acc, students[1][1], students[1][2], df, tests,
                            export_lectures, export_labs, export_finals),
             Tail(students), df, tests, export_lectures, export_labs, export_finals)

\* str(group_name)[:31]
SheetName(group) == LET t == str(group) IN SubSeq(t, 1, IF Len(t) < 31 THEN Len(t) ELSE 31)

\* a document with a sheet for every selected group, with or without rows
CategoryFile_every_group(filename, export, tests, by_group) ==
    IF export /\ tests # <<>>
    THEN << [filename |-> filename,
             sheets |-> [i \in 1..Len(by_group) |->
                 [sheet_name |-> SheetName(by_group[i][1]),
                  columns |-> <<KEY_FIO, KEY_GROUP>> \o [k \in 1..Len(tests) |-> tests[k][2]],
                  data |-> by_group[i][2]]]] >>
    ELSE <<>>

\* lines 209-223: the document of one category, or none
CategoryFile(filename, export, tests, by_group) ==
    IF export /\ tests # <<>>
    THEN LET HasData(pair) == pair[2] # <<>>
             dfs == SelectSeq(by_group, HasData)
         IN  IF dfs # <<>>
             THEN << [filename |-> filename,
                      sheets |-> [i \in 1..Len(dfs) |->
                          [sheet_name |-> SheetName(dfs[i][1]),
                           columns |-> <<KEY_FIO, KEY_GROUP>>
                                       \o [k \in 1..Len(tests) |-> tests[k][2]],
                           data |-> dfs[i][2]]]] >>
             ELSE <<>>
    ELSE <<>>

Raise(e) == <<"raise", e>>
Return(v) == <<"return", v>>

\* process_data(user_id, selected_groups, export_lectures, export_labs, export_finals)
process_data(sessions, user_id, selected_groups, export_lectures, export_labs, export_finals) ==
    IF user_id \notin DOMAIN sessions
    THEN Raise("Exception: data not loaded")                \* lines 121-123
    ELSE
    LET session == sessions[user_id]
        df == session.df_results
        student_dict == session.student_dict
    IN  IF df = None THEN Raise("AttributeError")           \* line 67: None.columns
        ELSE IF student_dict = None THEN Raise("AttributeError")   \* line 132: None.items()
        ELSE
        LET tests == get_available_tests(df)
            InSelected(item) == InList(item[2], selected_groups)
            filtered_students == SelectSeq(student_dict.items, InSelected)
            acc == ProcessStudents(
                       [found_students |-> 0, not_found_students |-> <<>>,
                        lecture |-> EmptyByGroup(selected_groups),
                        lab |-> EmptyByGroup(selected_groups),
                        final |-> EmptyByGroup(selected_groups)],
                       filtered_students, df, tests,
                       export_lectures, export_labs, export_finals)
            files == CategoryFile("lectures.xlsx", export_lectures, tests.lecture, acc.lecture)
                     \o CategoryFile("labs.xlsx", export_labs, tests.lab, acc.lab)
                     \o CategoryFile("finals.xlsx", export_finals, tests.final, acc.final)
        IN  Return([files |-> files,
                    found_students |-> acc.found_students,
                    not_found |-> Len(acc.not_found_students)])

---------------------------------------------------------------------------
(* StudentProcessorBot.read_students_list *)

(* An uploaded workbook is [sheet |-> rows], the rows of its first sheet   *)
(* from the top, every row with the same number of cells (a missing cell   *)
(* is NaN), or Unreadable, the bytes read_excel cannot parse.              *)
Unreadable == [unreadable |-> TRUE]

\* str.isdigit() for one character: the decimal digits and the superscript digits
\* of ASCII and Latin-1, and the Arabic-Indic digits
IsDigitChar(c) == c \in (48..57) \cup {178, 179, 185} \cup (1632..1641)

\* str.isdigit(): not empty and every character a digit
isdigit(s) == s # <<>> /\ \A i \in 1..Len(s) : IsDigitChar(s[i])

\* rows skipped only when a row is left
skip_rows_unless_empty(rows) ==
    IF Len(rows) > 2 THEN SubSeq(rows, 3, Len(rows)) ELSE rows

\* line 44: read_excel(..., header=None, skiprows=2) drops the first two rows
skip_rows(rows) == SubSeq(rows, 3, Len(rows))

\* a name taken from the first cell of the row that holds text
name_cell_first_text(row) ==
    IF \E j \in 1..Len(row) : IsStr(row[j])
    THEN row[CHOOSE j \in 1..Len(row) :
                 IsStr(row[j]) /\ \A k \in 1..(j - 1) : ~IsStr(row[k])]
    ELSE NaN

\* line 48, 49: row[1], the second cell
name_cell(row) == row[2]

\* line 48, 50: row[2], the third cell
group_cell(row) == row[3]

\* a name check without the isdigit() test
name_accepted_nonempty(full_name) == full_name # <<>>

\* line 52: full_name and not full_name.isdigit()
name_accepted(full_name) == full_name # <<>> /\ ~isdigit(full_name)

\* student_dict[key] = value: a new key goes last, a known key keeps its place
DictSet(items, key, value) ==
    IF \E i \in 1..Len(items) : items[i][1] = key
    THEN [i \in 1..Len(items) |-> IF items[i][1] = key THEN <<key, value>> ELSE items[i]]
    ELSE Append(items, <<key, value>>)

\* lines 48-53: the body of the loop for one row
ReadRow(items, row) ==
    IF Len(row) >= 3 /\ notna(name_cell(row)) /\ notna(group_cell(row))
    THEN LET full_name == strip(str(name_cell(row)))
             group == strip(str(group_cell(row)))
         IN  IF name_accepted(full_name)
             THEN DictSet(items, PyStr(full_name), PyStr(group))
             ELSE items
    ELSE items

\* lines 47-53: for index, row in df_students.iterrows()
RECURSIVE ReadRows(_, _)
ReadRows(items, rows) ==
    IF rows = <<>> THEN items
    ELSE ReadRows(ReadRow(items, Head(rows)), Tail(rows))

\* read_students_list(file_content)
read_students_list(content) ==
    IF content = Unreadable
    THEN Raise("Exception: students list")                  \* lines 57-58
    ELSE Return(Dict(ReadRows(<<>>, skip_rows(content.sheet))))

---------------------------------------------------------------------------
(* The handlers: start, button_handler, handle_document *)

(* A handler is an operator from bot_processor.user_sessions and the       *)
(* update to an outcome: the sessions it leaves, the text it answers with, *)
(* the names of the documents it sent, and the value of its call of        *)
(* process_data, NotCalled if it made none.                                *)
Outcome(sessions, reply, documents, call) ==
    [user_sessions |-> sessions, reply |-> reply, documents |-> documents,
     process_data |-> call]

NotCalled == <<"not called">>

\* an exception leaves the handler: error_handler (lines 596-602) answers
Unhandled(sessions) == Outcome(sessions, "error_handler", <<>>, NotCalled)

WAITING_RESULTS == [step |-> "waiting_results"]
WAITING_STUDENTS == [step |-> "waiting_students"]

\* lines 270-279: the session /start creates
NewSession ==
    [step |-> None, df_results |-> None, student_dict |-> None,
     available_groups |-> <<>>, selected_groups |-> <<>>,
     export_lectures |-> TRUE, export_labs |-> TRUE, export_finals |-> TRUE]

\* user_sessions.get(user_id)
SessionOf(sessions, user_id) ==
    IF user_id \in DOMAIN sessions THEN sessions[user_id] ELSE None

\* an assignment that reaches the session of every user
SetSession_every_user(sessions, user_id, session) ==
    [v \in DOMAIN sessions \cup {user_id} |-> session]

\* user_sessions[user_id] = session, and the writes through the session object
SetSession(sessions, user_id, session) ==
    [v \in DOMAIN sessions \cup {user_id} |->
        IF v = user_id THEN session ELSE sessions[v]]

\* lines 265-298
start(sessions, user_id) ==
    Outcome(IF user_id \in DOMAIN sessions THEN sessions
            ELSE SetSession(sessions, user_id, NewSession),
            "menu", <<>>, NotCalled)

\* lines 308-313; line 309 raises KeyError without a session
load_results(sessions, user_id) ==
    IF user_id \notin DOMAIN sessions THEN Unhandled(sessions)
    ELSE Outcome(SetSession(sessions, user_id,
                            [sessions[user_id] EXCEPT !.step = WAITING_RESULTS]),
                 "send_results_file", <<>>, NotCalled)

\* lines 315-323; line 316 raises KeyError without a session
load_students(sessions, user_id) ==
    IF user_id \notin DOMAIN sessions THEN Unhandled(sessions)
    ELSE Outcome(SetSession(sessions, user_id,
                            [sessions[user_id] EXCEPT !.step = WAITING_STUDENTS]),
                 "send_students_file", <<>>, NotCalled)

\* lines 325-358
configure(sessions, user_id) ==
    LET session == SessionOf(sessions, user_id) IN
    IF session = None THEN Outcome(sessions, "load_both_files_first", <<>>, NotCalled)
    ELSE IF session.df_results = None \/ session.student_dict = None
    THEN Outcome(sessions, "load_both_files_first", <<>>, NotCalled)
    ELSE Outcome(SetSession(sessions, user_id,
                            [session EXCEPT !.available_groups =
                                                get_available_groups(session.student_dict)]),
                 "groups_menu", <<>>, NotCalled)

FileNames(files) == [i \in 1..Len(files) |-> files[i].filename]

(* lines 386-409: what the process branch does with the value of          *)
(* process_data.  send_document and send_message are calls to Telegram     *)
(* that can fail: fail_at = k in 1..len(files) is the k-th send_document   *)
(* raising, fail_at = len(files) + 1 the send_message of the statistics    *)
(* raising, any other value no failure.                                    *)
deliver(sessions, call, fail_at) ==
    IF call[1] = "raise" THEN Outcome(sessions, "processing_error", <<>>, call)
    ELSE IF call[2].files = <<>> THEN Outcome(sessions, "no_files", <<>>, call)
    ELSE IF fail_at \in 1..Len(call[2].files)
    THEN Outcome(sessions, "processing_error",
                 SubSeq(FileNames(call[2].files), 1, fail_at - 1), call)
    ELSE IF fail_at = Len(call[2].files) + 1
    THEN Outcome(sessions, "processing_error", FileNames(call[2].files), call)
    ELSE Outcome(sessions, "done", FileNames(call[2].files), call)

\* the process branch without the test of the export flags
process_without_flag_check(sessions, user_id, fail_at) ==
    IF user_id \notin DOMAIN sessions
    THEN Outcome(sessions, "session_not_found", <<>>, NotCalled)
    ELSE IF sessions[user_id].selected_groups = <<>>
    THEN Outcome(sessions, "select_a_group", <<>>, NotCalled)
    ELSE deliver(sessions,
                 process_data(sessions, user_id, sessions[user_id].selected_groups,
                              sessions[user_id].export_lectures,
                              sessions[user_id].export_labs,
                              sessions[user_id].export_finals),
                 fail_at)

\* lines 360-384
process(sessions, user_id, fail_at) ==
    IF user_id \notin DOMAIN sessions
    THEN Outcome(sessions, "session_not_found", <<>>, NotCalled)
    ELSE IF sessions[user_id].selected_groups = <<>>
    THEN Outcome(sessions, "select_a_group", <<>>, NotCalled)
    ELSE IF ~(\/ sessions[user_id].export_lectures
              \/ sessions[user_id].export_labs
              \/ sessions[user_id].export_finals)
    THEN Outcome(sessions, "select_an_export_type", <<>>, NotCalled)
    ELSE deliver(sessions,
                 process_data(sessions, user_id, sessions[user_id].selected_groups,
                              sessions[user_id].export_lectures,
                              sessions[user_id].export_labs,
                              sessions[user_id].export_finals),
                 fail_at)

\* list.remove(x): without the first x
remove(l, x) ==
    LET i == CHOOSE k \in 1..Len(l) : l[k] = x /\ \A m \in 1..(k - 1) : l[m] # x
    IN  SubSeq(l, 1, i - 1) \o SubSeq(l, i + 1, Len(l))

\* lines 411-444; line 415 raises TypeError without a session
toggle_group(sessions, user_id, group) ==
    LET session == SessionOf(sessions, user_id) IN
    IF session = None THEN Unhandled(sessions)
    ELSE Outcome(SetSession(sessions, user_id,
                            [session EXCEPT !.selected_groups =
                                IF InList(group, session.selected_groups)
                                THEN remove(session.selected_groups, group)
                                ELSE Append(session.selected_groups, group)]),
                 "groups_menu", <<>>, NotCalled)

\* lines 446-467; line 448 raises TypeError without a session
select_all_groups(sessions, user_id) ==
    LET session == SessionOf(sessions, user_id) IN
    IF session = None THEN Unhandled(sessions)
    ELSE Outcome(SetSession(sessions, user_id,
                            [session EXCEPT !.selected_groups = session.available_groups]),
                 "groups_menu", <<>>, NotCalled)

\* lines 469-490; line 471 raises TypeError without a session
deselect_all_groups(sessions, user_id) ==
    LET session == SessionOf(sessions, user_id) IN
    IF session = None THEN Unhandled(sessions)
    ELSE Outcome(SetSession(sessions, user_id, [session EXCEPT !.selected_groups = <<>>]),
                 "groups_menu", <<>>, NotCalled)

\* lines 492-510; line 494 raises AttributeError without a session
export_types(sessions, user_id) ==
    LET session == SessionOf(sessions, user_id) IN
    IF session = None THEN Unhandled(sessions)
    ELSE Outcome(sessions, "export_menu", <<>>, NotCalled)

(* lines 512-525.  Each toggle branch flips its flag and then awaits       *)
(* button_handler(update, context) with the same update: query.data is     *)
(* unchanged, so the same branch runs again, and again, until a call       *)
(* raises (query.answer() on the query answered before, or the             *)
(* interpreter's RecursionError).  calls is the number of nested calls     *)
(* that reach their branch before that happens.                            *)
RECURSIVE toggle_lectures(_, _, _)
toggle_lectures(sessions, user_id, calls) ==
    IF calls = 0 \/ user_id \notin DOMAIN sessions THEN Unhandled(sessions)
    ELSE toggle_lectures(
             SetSession(sessions, user_id,
                        [sessions[user_id] EXCEPT !.export_lectures = ~@]),
             user_id, calls - 1)

RECURSIVE toggle_labs(_, _, _)
toggle_labs(sessions, user_id, calls) ==
    IF calls = 0 \/ user_id \notin DOMAIN sessions THEN Unhandled(sessions)
    ELSE toggle_labs(
             SetSession(sessions, user_id,
                        [sessions[user_id] EXCEPT !.export_labs = ~@]),
             user_id, calls - 1)

RECURSIVE toggle_finals(_, _, _)
toggle_finals(sessions, user_id, calls) ==
    IF calls = 0 \/ user_id \notin DOMAIN sessions THEN Unhandled(sessions)
    ELSE toggle_finals(
             SetSession(sessions, user_id,
                        [sessions[user_id] EXCEPT !.export_finals = ~@]),
             user_id, calls - 1)

\* lines 527-540
back_to_main(sessions, user_id) == Outcome(sessions, "menu", <<>>, NotCalled)

\* lines 558-561: pd.read_excel(BytesIO(file_content)): the first row of the sheet
\* gives the headers, the other rows the data
read_excel(content) ==
    IF content = Unreadable THEN Raise("Exception: read_excel")
    ELSE IF content.sheet = <<>> THEN Return([columns |-> <<>>, rows |-> <<>>])
    ELSE Return([columns |-> Head(content.sheet), rows |-> Tail(content.sheet)])

\* handle_document giving up the waiting step when the file cannot be read
handle_document_step_lost_on_error(sessions, user_id, content) ==
    LET session == SessionOf(sessions, user_id) IN
    IF session = None THEN Outcome(sessions, "choose_an_action_first", <<>>, NotCalled)
    ELSE IF session.step = None
    THEN Outcome(sessions, "choose_an_action_first", <<>>, NotCalled)
    ELSE IF session.step = WAITING_RESULTS
    THEN LET df == read_excel(content) IN
         IF df[1] = "raise"
         THEN Outcome(SetSession(sessions, user_id, [session EXCEPT !.step = None]),
                      "upload_error", <<>>, NotCalled)
         ELSE Outcome(SetSession(sessions, user_id,
                                 [session EXCEPT !.df_results = df[2], !.step = None]),
                      "results_loaded", <<>>, NotCalled)
    ELSE LET student_dict == read_students_list(content) IN
         IF student_dict[1] = "raise"
         THEN Outcome(SetSession(sessions, user_id, [session EXCEPT !.step = None]),
                      "upload_error", <<>>, NotCalled)
         ELSE Outcome(SetSession(sessions, user_id,
                                 [session EXCEPT !.student_dict = student_dict[2],
                                                 !.step = None]),
                      "students_loaded", <<>>, NotCalled)

\* handle_document keeping the waiting step after it has stored the file
handle_document_step_kept(sessions, user_id, content) ==
    LET session == SessionOf(sessions, user_id) IN
    IF session = None THEN Outcome(sessions, "choose_an_action_first", <<>>, NotCalled)
    ELSE IF session.step = None
    THEN Outcome(sessions, "choose_an_action_first", <<>>, NotCalled)
    ELSE IF session.step = WAITING_RESULTS
    THEN LET df == read_excel(content) IN
         IF df[1] = "raise" THEN Outcome(sessions, "upload_error", <<>>, NotCalled)
         ELSE Outcome(SetSession(sessions, user_id, [session EXCEPT !.df_results = df[2]]),
                      "results_loaded", <<>>, NotCalled)
    ELSE LET student_dict == read_students_list(content) IN
         IF student_dict[1] = "raise" THEN Outcome(sessions, "upload_error", <<>>, NotCalled)
         ELSE Outcome(SetSession(sessions, user_id,
                                 [session EXCEPT !.student_dict = student_dict[2]]),
                      "students_loaded", <<>>, NotCalled)

\* lines 543-593
handle_document(sessions, user_id, content) ==
    LET session == SessionOf(sessions, user_id) IN
    IF session = None THEN Outcome(sessions, "choose_an_action_first", <<>>, NotCalled)
    ELSE IF session.step = None
    THEN Outcome(sessions, "choose_an_action_first", <<>>, NotCalled)
    ELSE IF session.step = WAITING_RESULTS
    THEN LET df == read_excel(content) IN
         IF df[1] = "raise" THEN Outcome(sessions, "upload_error", <<>>, NotCalled)
         ELSE Outcome(SetSession(sessions, user_id,
                                 [session EXCEPT !.df_results = df[2], !.step = None]),
                      "results_loaded", <<>>, NotCalled)
    ELSE LET student_dict == read_students_list(content) IN
         IF student_dict[1] = "raise" THEN Outcome(sessions, "upload_error", <<>>, NotCalled)
         ELSE Outcome(SetSession(sessions, user_id,
                                 [session EXCEPT !.student_dict = student_dict[2],
                                                 !.step = None]),
                      "students_loaded", <<>>, NotCalled)

---------------------------------------------------------------------------
(* Idle values of the variables a specification does not use *)

GradeIdle == grade = NaN /\ converted = <<"idle">>
CategorizeIdle == test_name = NaN /\ categorized = <<"idle">>
TestsIdle == df_results = [columns |-> <<>>, rows |-> <<>>] /\ available_tests = <<"idle">>
FindIdle == student_name = NaN /\ found = <<>>
ProcessIdle == user_sessions = <<>> /\ processed = <<"idle">>
RosterIdle == file_content = None /\ students_list = <<"idle">>
BotIdle == last_event = None /\ events = 0

---------------------------------------------------------------------------
(* Specification SpecGrade: convert_grade applied to one bounded input *)

MaxGradeLen == 3
MaxGradeNum == 12

\* '0' '1' '3' '5' '7' '8' '9'  ','  '-'  '.'  ' '  U+041D  U+043D
GradeChars == {48, 49, 51, 53, 55, 56, 57, 44, 45, 46, 32, 1053, 1085}

GradeTexts == UNION {[1..n -> GradeChars] : n \in 0..MaxGradeLen}

GradeInputs ==
    {NaN, None}
    \cup {PyStr(s) : s \in GradeTexts}
    \cup {PyInt(n) : n \in (-MaxGradeNum)..MaxGradeNum}
    \cup {PyFloat10(n) : n \in (-10 * MaxGradeNum)..(10 * MaxGradeNum)}

InitGrade ==
    /\ grade \in GradeInputs
    /\ converted = <<"pending">>
    /\ RosterIdle
    /\ BotIdle
    /\ CategorizeIdle
    /\ TestsIdle
    /\ FindIdle
    /\ ProcessIdle

ConvertGrade ==
    /\ converted = <<"pending">>
    /\ converted' = <<"return", convert_grade(grade)>>
    /\ UNCHANGED <<rosterVars, botVars, grade, categorizeVars, testsVars, findVars, processVars>>

NextGrade == ConvertGrade

SpecGrade == InitGrade /\ [][NextGrade]_vars

\* the five-point mark of a grade of t tenths, by the thresholds 9, 7, 5, 3
Mark10(t) ==
    IF t >= 90 THEN 5 ELSE IF t >= 70 THEN 4 ELSE IF t >= 50 THEN 3
    ELSE IF t >= 30 THEN 2 ELSE 1

\* the decimal text of a whole part a >= 0 and one decimal digit d, with separator sep
Decimal(a, sep, d) == NatStr(a) \o <<sep>> \o <<48 + d>>

Returned == converted[1] = "return"

(* C7: every input that parses as a number g (a decimal comma read as a   *)
(* dot) is mapped to 5 if g >= 9, else 4 if g >= 7, else 3 if g >= 5,      *)
(* else 2 if g >= 3, else 1; there is no range clamp, so negatives give 1  *)
(* and values above 10 give 5; '7,5' and '7.5' both give 4.                *)
C7_Thresholds ==
    Returned =>
        LET g == float(replace_comma(str(grade)))
            out == converted[2]
        IN  /\ ~isna(grade) /\ g # ValueError =>
                /\ out \in {PyInt(m) : m \in 1..5}
                /\ (out = PyInt(5)) = (g.num >= 9 * g.den)
                /\ (out = PyInt(4)) = (g.num >= 7 * g.den /\ g.num < 9 * g.den)
                /\ (out = PyInt(3)) = (g.num >= 5 * g.den /\ g.num < 7 * g.den)
                /\ (out = PyInt(2)) = (g.num >= 3 * g.den /\ g.num < 5 * g.den)
                /\ (out = PyInt(1)) = (g.num < 3 * g.den)
                /\ (g.num < 0 => out = PyInt(1))
                /\ (g.num > 10 * g.den => out = PyInt(5))
            /\ \A a \in 0..MaxGradeNum :
                /\ grade \in {PyInt(a), PyStr(NatStr(a))} => out = PyInt(Mark10(10 * a))
                /\ grade \in {PyInt(-a), PyStr(<<45>> \o NatStr(a))} => out = PyInt(1)
                /\ \A d \in 0..9 :
                       grade \in {PyStr(Decimal(a, 44, d)), PyStr(Decimal(a, 46, d)),
                                  PyFloat10(10 * a + d)}
                           => out = PyInt(Mark10(10 * a + d))
            /\ grade \in {PyStr(<<55, 44, 53>>), PyStr(<<55, 46, 53>>)} => out = PyInt(4)

\* convert_grade('7,5') has returned 4
C7_Witness == Returned /\ grade = PyStr(<<55, 44, 53>>) /\ converted[2] = PyInt(4)

(* C8: convert_grade returns NOT_AVAILABLE for an absent cell, an empty    *)
(* cell, '-', and the letter U+043D in either case, and for every other    *)
(* input that does not parse as a number; it never raises: the result is   *)
(* always one of 1..5 or NOT_AVAILABLE.                                    *)
C8_NeverRaises ==
    Returned =>
        LET out == converted[2] IN
        /\ out \in {PyInt(m) : m \in 1..5} \cup {NOT_AVAILABLE}
        /\ grade \in {NaN, PyStr(<<>>), PyStr(<<45>>), PyStr(<<1085>>), PyStr(<<1053>>)}
               => out = NOT_AVAILABLE
        /\ ~isna(grade) /\ float(replace_comma(str(grade))) = ValueError
               => out = NOT_AVAILABLE

\* convert_grade of the capital letter U+041D, which float() rejects, returned NOT_AVAILABLE
C8_Witness == Returned /\ grade = PyStr(<<1053>>) /\ converted[2] = NOT_AVAILABLE

---------------------------------------------------------------------------
(* Header texts: concatenations of a few fragments, so that the keywords   *)
(* occur alone, together, in either letter case and inside longer words.   *)

MaxFrags == 3

HeaderFragments ==
    { <<1058, 1077, 1089, 1090>>,   \* U+0422 0435 0441 0442 (capitalised test keyword)
      kw_test, kw_final, kw_lecture,
      <<1048, 1058, 1054, 1043>>,   \* U+0418 0422 041E 0413 (upper-case final keyword)
      <<1086, 1074, 1099, 1081>>,   \* U+043E 0432 044B 0439 (the ending of the long final keyword)
      <<1051, 1077, 1082, 1094>>,   \* U+041B 0435 043A 0446 (capitalised lecture keyword)
      <<1083, 1072, 1073>>,         \* U+043B 0430 0431
      <<32>>,                       \* ' '
      <<49>> }                      \* '1'

RECURSIVE Concat(_)
Concat(parts) == IF parts = <<>> THEN <<>> ELSE Head(parts) \o Concat(Tail(parts))

HeaderTexts ==
    {Concat(fs) : fs \in UNION {[1..n -> HeaderFragments] : n \in 0..MaxFrags}}

\* categorize_test is only called on test columns (line 73-74)
TestHeaders == {PyStr(h) : h \in {t \in HeaderTexts : Contains(kw_test, lower(t))}}

---------------------------------------------------------------------------
(* Specification SpecCategorize: categorize_test applied to one test header *)

InitCategorize ==
    /\ test_name \in TestHeaders
    /\ categorized = <<"pending">>
    /\ RosterIdle
    /\ BotIdle
    /\ GradeIdle
    /\ TestsIdle
    /\ FindIdle
    /\ ProcessIdle

CategorizeTest ==
    /\ categorized = <<"pending">>
    /\ categorized' = <<"return", categorize_test(test_name)>>
    /\ UNCHANGED <<rosterVars, botVars, test_name, gradeVars, testsVars, findVars, processVars>>

NextCategorize == CategorizeTest

SpecCategorize == InitCategorize /\ [][NextCategorize]_vars

HasFinalKeyword(h) ==
    Contains(kw_final, lower(str(h))) \/ Contains(kw_final_long, lower(str(h)))

HasLectureKeyword(h) == Contains(kw_lecture, lower(str(h)))

(* C9: categorize_test has a fixed precedence: a header with a final/total *)
(* keyword is FINAL even when it also has a lecture keyword; otherwise a   *)
(* header with a lecture keyword is LECTURE; every other test header is    *)
(* LAB.  The header is returned unchanged as the display name.             *)
C9_Precedence ==
    categorized[1] = "return" =>
        LET cat == categorized[2][1] IN
        /\ categorized[2][2] = test_name
        /\ cat \in {"final", "lecture", "lab"}
        /\ HasFinalKeyword(test_name) => cat = "final"
        /\ ~HasFinalKeyword(test_name) /\ HasLectureKeyword(test_name) => cat = "lecture"
        /\ ~HasFinalKeyword(test_name) /\ ~HasLectureKeyword(test_name) => cat = "lab"

\* a header with both a final and a lecture keyword has been categorized FINAL
C9_Witness ==
    /\ categorized[1] = "return"
    /\ HasFinalKeyword(test_name) /\ HasLectureKeyword(test_name)
    /\ categorized[2][1] = "final"

---------------------------------------------------------------------------
(* Specification SpecTests: get_available_tests on a bounded header list *)

MaxCols == 3

H_fio == PyStr(<<1060, 1048, 1054>>)                             \* U+0424 0418 041E, the name column
H_test1 == PyStr(Concat(<<<<1058, 1077, 1089, 1090>>, <<32>>, <<49>>>>))
H_test_lab == PyStr(Concat(<<<<1058, 1077, 1089, 1090>>, <<32>>, <<1083, 1072, 1073>>>>))
H_lecture_test == PyStr(Concat(<<<<1051, 1077, 1082, 1094>>, <<32>>, kw_test>>))
H_final_test == PyStr(Concat(<<<<1048, 1058, 1054, 1043>>, <<32>>, kw_test>>))
H_final_lecture_test == PyStr(Concat(<<kw_final, <<32>>, kw_lecture, <<32>>, kw_test>>))
H_lecture_only == PyStr(<<1051, 1077, 1082, 1094>>)
H_final_only == PyStr(kw_final)
H_lab_only == PyStr(Concat(<<<<1083, 1072, 1073>>, <<32>>, <<49>>>>))

HeaderPool ==
    {H_fio, H_test1, H_test_lab, H_lecture_test, H_final_test, H_final_lecture_test,
     H_lecture_only, H_final_only, H_lab_only}

\* read_excel gives every column its own header
ColumnLists ==
    {cs \in UNION {[1..n -> HeaderPool] : n \in 0..MaxCols} :
        \A i, j \in 1..Len(cs) : i # j => cs[i] # cs[j]}

InitTests ==
    /\ df_results \in {[columns |-> cs, rows |-> <<>>] : cs \in ColumnLists}
    /\ available_tests = <<"pending">>
    /\ RosterIdle
    /\ BotIdle
    /\ GradeIdle
    /\ CategorizeIdle
    /\ FindIdle
    /\ ProcessIdle

GetAvailableTests ==
    /\ available_tests = <<"pending">>
    /\ available_tests' = <<"return", get_available_tests(df_results)>>
    /\ UNCHANGED <<rosterVars, botVars, df_results, gradeVars, categorizeVars, findVars, processVars>>

NextTests == GetAvailableTests

SpecTests == InitTests /\ [][NextTests]_vars

\* the headers that get_available_tests returned, in any of its three lists
ListedColumns(lists) ==
    {lists.lecture[i][1] : i \in 1..Len(lists.lecture)}
    \cup {lists.lab[i][1] : i \in 1..Len(lists.lab)}
    \cup {lists.final[i][1] : i \in 1..Len(lists.final)}

ColumnSet(df) == {df.columns[i] : i \in 1..Len(df.columns)}

(* C10 as amended: get_available_tests includes a header exactly when its  *)
(* lower-cased text contains the test keyword (U+0442 0435 0441 0442); a   *)
(* header with only a lecture or only a final keyword is left out, like    *)
(* every other header without the test keyword, and nothing is reported.   *)
C10_TestKeywordOnly ==
    available_tests[1] = "return" =>
        \A col \in ColumnSet(df_results) :
            (col \in ListedColumns(available_tests[2])) = Contains(kw_test, lower(str(col)))

\* a lecture-only header was left out while a header with the test keyword was listed
C10_Witness ==
    /\ available_tests[1] = "return"
    /\ H_lecture_only \in ColumnSet(df_results)
    /\ H_lecture_only \notin ListedColumns(available_tests[2])
    /\ H_lecture_test \in ListedColumns(available_tests[2])

(* C10 as stated: a header is included whenever its lower-cased text       *)
(* contains any keyword of the test / lecture / final keyword set.         *)
C10_AnyKeyword ==
    available_tests[1] = "return" =>
        \A col \in ColumnSet(df_results) :
            (Contains(kw_test, lower(str(col))) \/ HasLectureKeyword(col) \/ HasFinalKeyword(col))
                => col \in ListedColumns(available_tests[2])

\* the headers of one returned list
ListColumns(l) == {l[i][1] : i \in 1..Len(l)}

\* a comes strictly before b in the order of str values
NameBefore(a, b) ==
    \E k \in 1..Len(b) :
        /\ k <= Len(a) + 1
        /\ \A i \in 1..(k - 1) : a[i] = b[i]
        /\ (k = Len(a) + 1 \/ a[k] < b[k])

Ascending(l) ==
    \A i, j \in 1..Len(l) : i < j => NameBefore(str(l[i][2]), str(l[j][2]))

\* the orders in which the same headers can be given
HeaderOrders(cs) ==
    {p \in [1..Len(cs) -> {cs[i] : i \in 1..Len(cs)}] :
        \A i, j \in 1..Len(cs) : i # j => p[i] # p[j]}

(* C11: every header with the test keyword is in exactly one of the three  *)
(* lists of get_available_tests (the one of its category) and every other  *)
(* header in none; each list is ascending by display name; the three lists *)
(* are the same for every permutation of the input header list.            *)
C11_PartitionPermutationInvariant ==
    available_tests[1] = "return" =>
        LET lists == available_tests[2]
            Qualifying == {col \in ColumnSet(df_results) : Contains(kw_test, lower(str(col)))}
        IN
        /\ ListColumns(lists.lecture) \cup ListColumns(lists.lab) \cup ListColumns(lists.final)
               = Qualifying
        /\ Len(lists.lecture) + Len(lists.lab) + Len(lists.final) = Cardinality(Qualifying)
        /\ \A col \in Qualifying :
               /\ (col \in ListColumns(lists.final)) = HasFinalKeyword(col)
               /\ (col \in ListColumns(lists.lecture)) =
                      (~HasFinalKeyword(col) /\ HasLectureKeyword(col))
               /\ (col \in ListColumns(lists.lab)) =
                      (~HasFinalKeyword(col) /\ ~HasLectureKeyword(col))
        /\ Ascending(lists.lecture) /\ Ascending(lists.lab) /\ Ascending(lists.final)
        /\ \A p \in HeaderOrders(df_results.columns) :
               get_available_tests([columns |-> p, rows |-> <<>>]) = lists

\* two lab tests given in descending order came back ascending, next to a final test
C11_Witness ==
    /\ available_tests[1] = "return"
    /\ df_results.columns = <<H_test_lab, H_final_test, H_test1>>
    /\ available_tests[2].lab = << <<H_test1, H_test1>>, <<H_test_lab, H_test_lab>> >>
    /\ available_tests[2].final = << <<H_final_test, H_final_test>> >>

---------------------------------------------------------------------------
(* Specification SpecFind: find_student_in_results, called up to MaxCalls  *)
(* times on the same name and table.  Two families of inputs: one-row      *)
(* tables with every name of up to MaxNameLen and every cell text of up to *)
(* MaxCellLen characters, and tables of up to MaxRows rows with two name   *)
(* columns and few texts.                                                  *)

MaxNameLen == 4
MaxCellLen == 3
MaxRows == 3
MaxCalls == 2

NameChars == {97, 66, 32}     \* 'a' 'B' ' '

NameTexts == UNION {[1..n -> NameChars] : n \in 0..MaxNameLen}
CellTexts == UNION {[1..n -> NameChars] : n \in 1..MaxCellLen}

\* the keys of student_dict are stripped and not empty (lines 49, 52)
RosterNames == {PyStr(t) : t \in {u \in NameTexts : u # <<>> /\ strip(u) = u}}

\* read_excel turns an empty cell into NaN, so a text cell is never empty
NameCells == {NaN} \cup {PyStr(t) : t \in CellTexts}

H_group == PyStr(<<1043, 1088, 1091, 1087, 1087, 1072>>)            \* U+0413 0440 0443 043F 043F 0430
H_familiya == PyStr(<<1060, 1072, 1084, 1080, 1083, 1080, 1103>>)   \* U+0424 0430 043C 0438 043B 0438 044F
H_imya == PyStr(<<1048, 1084, 1103>>)                               \* U+0418 043C 044F

OneRowTables ==
    {[columns |-> <<H_fio>>, rows |-> <<<<c>>>>] : c \in NameCells}
    \cup {[columns |-> <<H_group, H_fio>>, rows |-> <<<<c, NaN>>>>] : c \in NameCells}

SmallNames == {PyStr(<<97>>), PyStr(<<66>>)}
SmallCells == {NaN, PyStr(<<97>>), PyStr(<<66>>)}

TwoNameColumnTables ==
    {[columns |-> <<H_familiya, H_imya>>, rows |-> rs] :
        rs \in UNION {[1..n -> [1..2 -> SmallCells]] : n \in 0..MaxRows}}

InitFind ==
    /\ \/ student_name \in RosterNames /\ df_results \in OneRowTables
       \/ student_name \in SmallNames /\ df_results \in TwoNameColumnTables
    /\ found = <<>>
    /\ available_tests = <<"idle">>
    /\ RosterIdle
    /\ BotIdle
    /\ GradeIdle
    /\ CategorizeIdle
    /\ ProcessIdle

FindStudent ==
    /\ Len(found) < MaxCalls
    /\ found' = Append(found, find_student_in_results(student_name, df_results))
    /\ UNCHANGED <<rosterVars, botVars, student_name, df_results, available_tests, gradeVars, categorizeVars,
                   processVars>>

NextFind == FindStudent

SpecFind == InitFind /\ [][NextFind]_vars

\* t lower-cased, its white-space runs collapsed to one space, none at the ends
Collapse(t) ==
    LET l == lower(t)
        Keep(i) == ~IsSpace(l[i])
                   \/ (/\ i > 1 /\ ~IsSpace(l[i - 1])
                       /\ \E k \in (i + 1)..Len(l) : ~IsSpace(l[k]))
        kept == {i \in 1..Len(l) : Keep(i)}
        Nth(n) == CHOOSE i \in kept : Cardinality({k \in kept : k < i}) = n - 1
    IN  [n \in 1..Cardinality(kept) |-> IF IsSpace(l[Nth(n)]) THEN 32 ELSE l[Nth(n)]]

\* the white-space separated tokens of t, as <<first, last>> positions
TokenSpans(t) ==
    {<<i, j>> \in (1..Len(t)) \X (1..Len(t)) :
        /\ i <= j
        /\ \A k \in i..j : ~IsSpace(t[k])
        /\ (i = 1 \/ IsSpace(t[i - 1]))
        /\ (j = Len(t) \/ IsSpace(t[j + 1]))}

Tokens(t) == {SubSeq(t, sp[1], sp[2]) : sp \in TokenSpans(t)}

\* the first two tokens of t
FirstTwoTokens(t) ==
    {SubSeq(t, sp[1], sp[2]) :
        sp \in {x \in TokenSpans(t) : Cardinality({y \in TokenSpans(t) : y[1] < x[1]}) < 2}}

\* the rule of the code for one row: a cell of a name column, stripped and
\* lower-cased, contains the collapsed name, or is contained in it, or
\* contains one of its tokens
OneTokenMatch(name, row) ==
    LET q == Collapse(str(name)) IN
    \E j \in 1..Len(row.index) :
        /\ IsNameColumn(row.index[j])
        /\ ~isna(row.values[j])
        /\ LET c == lower(strip(str(row.values[j])))
           IN  \/ Contains(q, c)
               \/ Contains(c, q)
               \/ \E t \in Tokens(q) : Contains(t, c)

\* the rule as stated: any cell of the row, both sides collapsed; clause (c)
\* asks for each of the first two tokens of the name inside a token of the cell
FirstTwoTokensMatch(name, row) ==
    \E j \in 1..Len(row.index) :
        /\ ~isna(row.values[j])
        /\ LET q == Collapse(str(name))
               c == Collapse(str(row.values[j]))
           IN  \/ Contains(q, c)
               \/ Contains(c, q)
               \/ \A t \in FirstTwoTokens(q) : \E u \in Tokens(c) : Contains(t, u)

RowNumbers(df) == 1..Len(df.rows)

(* C2 as amended: find_student_in_results treats a row as a match exactly  *)
(* when some non-missing cell in a column whose header contains a name     *)
(* keyword (cell stripped and lower-cased, name lower-cased with its       *)
(* white-space runs collapsed) (a) contains the name, or (b) is contained  *)
(* in the name, or (c) contains at least one white-space separated token   *)
(* of the name; a row satisfying none of the three is never returned.      *)
C2_OneTokenMatch ==
    \A n \in 1..Len(found) :
        /\ found[n][2] # None => OneTokenMatch(student_name, found[n][2])
        /\ found[n][2] = None =>
               \A i \in RowNumbers(df_results) :
                   ~OneTokenMatch(student_name, Series(df_results, i))

\* a row was returned that matches by a single token of the name only
C2_Witness ==
    /\ found # <<>>
    /\ found[1][2] # None
    /\ ~FirstTwoTokensMatch(student_name, found[1][2])
    /\ Cardinality(Tokens(Collapse(str(student_name)))) = 2

(* C2 as stated: a row is a match exactly when some cell of the row (both  *)
(* sides lower-cased and collapsed) (a) contains the name, (b) is          *)
(* contained in it, or (c) every one of the first two tokens of the name   *)
(* is a substring of some token of the cell; a row satisfying none of the  *)
(* three clauses is never returned.                                        *)
C2_FirstTwoTokens ==
    \A n \in 1..Len(found) :
        found[n][2] # None => FirstTwoTokensMatch(student_name, found[n][2])

Matches(i) == OneTokenMatch(student_name, Series(df_results, i))

MatchingRows == {i \in RowNumbers(df_results) : Matches(i)}

(* C3: find_student_in_results returns the row with the smallest table     *)
(* position among the rows that match (every column of a row is examined   *)
(* before the next row), NOT_FOUND only when no row matches, and the same  *)
(* answer on repeated calls with the same name and table.                  *)
C3_FirstMatch ==
    found # <<>> =>
        /\ IF found[1][2] = None
           THEN found[1][1] = None /\ \A i \in RowNumbers(df_results) : ~Matches(i)
           ELSE \E i \in RowNumbers(df_results) :
                    /\ found[1] = <<PyInt(i - 1), Series(df_results, i)>>
                    /\ Matches(i)
                    /\ \A k \in 1..(i - 1) : ~Matches(k)
        /\ \A n \in 1..Len(found) : found[n] = found[1]

\* two calls returned the second row, which matches in its second name column only,
\* while the third row matches in its first name column
C3_Witness ==
    /\ Len(found) = 2
    /\ Len(df_results.rows) >= 3
    /\ MatchingRows = {2, 3}
    /\ isna(df_results.rows[2][1])
    /\ ~isna(df_results.rows[3][1])
    /\ found[2][1] = PyInt(1)

---------------------------------------------------------------------------
(* Specification SpecProcess: one call of process_data, with the arguments *)
(* the "process" button passes (lines 366-384), on a session that holds a  *)
(* roster, a results table of up to MaxTableRows rows, a selection of      *)
(* groups and the three export flags.                                      *)

MaxTableRows == 2

ProcessUsers == {1}

N_ivanov == PyStr(<<73, 118, 97, 110, 111, 118, 32, 73, 118, 97, 110>>)    \* 'Ivanov Ivan'
N_petrov == PyStr(<<80, 101, 116, 114, 111, 118, 32, 80, 101, 116, 114>>)  \* 'Petrov Petr'
G1 == PyStr(<<71, 49>>)                                                    \* 'G1'
G2 == PyStr(<<71, 50>>)                                                    \* 'G2'

Cell_ivanov_i == PyStr(<<73, 118, 97, 110, 111, 118, 32, 73, 46>>)             \* 'Ivanov I.'
Cell_petrov_ivan == PyStr(<<80, 101, 116, 114, 111, 118, 32, 73, 118, 97, 110>>) \* 'Petrov Ivan'
Grade_8c5 == PyStr(<<56, 44, 53>>)                                             \* '8,5'

\* a roster: the (name, group) items of student_dict in insertion order, names unique
Rosters ==
    {Dict(r) : r \in
        {q \in UNION {[1..n -> {N_ivanov, N_petrov} \X {G1, G2}] : n \in 0..2} :
            \A i, j \in 1..Len(q) : i # j => q[i][1] # q[j][1]}}

\* selected_groups: the groups toggled on, in the order of selection
Selections == {<<>>, <<G1>>, <<G2>>, <<G1, G2>>, <<G2, G1>>}

\* the tables of up to MaxTableRows different rows of a pool, in any order
TablesOf(columns, row_pool) ==
    {[columns |-> columns, rows |-> rs] :
        rs \in {q \in UNION {[1..n -> row_pool] : n \in 0..MaxTableRows} :
                   \A i, j \in 1..Len(q) : i # j => q[i] # q[j]}}

\* a name column and one test column of each category
FullTables ==
    TablesOf(<<H_fio, H_lecture_test, H_test1, H_final_test>>,
             { <<Cell_ivanov_i, Grade_8c5, PyInt(9), PyStr(<<45>>)>>,
               <<Cell_petrov_ivan, PyInt(4), NaN, PyFloat10(65)>>,
               <<NaN, PyStr(<<49, 48>>), PyStr(<<51>>), PyStr(<<50>>)>> })

\* a name column and one lecture test
LectureTables ==
    TablesOf(<<H_fio, H_lecture_test>>,
             { <<Cell_ivanov_i, Grade_8c5>>,
               <<Cell_petrov_ivan, PyStr(<<1085>>)>> })

\* no name column: nobody can be found
NamelessTables == TablesOf(<<H_group, H_test1>>, { <<G1, PyInt(5)>> })

ResultTables == FullTables \cup LectureTables \cup NamelessTables

\* the sessions in which both files were loaded and the menus were used, and those
\* of lines 270-279 in which a file is still missing (nothing selected yet)
Sessions ==
    {[step |-> None, df_results |-> df, student_dict |-> sd,
      available_groups |-> get_available_groups(sd), selected_groups |-> sel,
      export_lectures |-> el, export_labs |-> eb, export_finals |-> ef] :
        df \in ResultTables, sd \in Rosters, sel \in Selections,
        el \in BOOLEAN, eb \in BOOLEAN, ef \in BOOLEAN}
    \cup
    {[step |-> None, df_results |-> df, student_dict |-> sd,
      available_groups |-> <<>>, selected_groups |-> <<>>,
      export_lectures |-> TRUE, export_labs |-> TRUE, export_finals |-> TRUE] :
        df \in {None}, sd \in Rosters \cup {None}}
    \cup
    {[step |-> None, df_results |-> df, student_dict |-> sd,
      available_groups |-> <<>>, selected_groups |-> <<>>,
      export_lectures |-> TRUE, export_labs |-> TRUE, export_finals |-> TRUE] :
        df \in ResultTables, sd \in {None}}

InitProcess ==
    /\ user_sessions \in [ProcessUsers -> Sessions]
    /\ processed = <<"pending">>
    /\ RosterIdle
    /\ BotIdle
    /\ GradeIdle
    /\ CategorizeIdle
    /\ TestsIdle
    /\ FindIdle

ProcessData ==
    /\ processed = <<"pending">>
    /\ \E user_id \in DOMAIN user_sessions :
           LET session == user_sessions[user_id] IN
           processed' = process_data(user_sessions, user_id, session.selected_groups,
                                     session.export_lectures, session.export_labs,
                                     session.export_finals)
    /\ UNCHANGED <<rosterVars, botVars, user_sessions, gradeVars, categorizeVars, testsVars, findVars>>

NextProcess == ProcessData

SpecProcess == InitProcess /\ [][NextProcess]_vars

\* the session and the outcome of the call
TheSession == user_sessions[CHOOSE u \in ProcessUsers : TRUE]
ProcessReturned == processed[1] = "return"
Result == processed[2]

\* the roster entries whose group is selected, as positions in student_dict
SelectedItems ==
    LET s == TheSession IN
    {i \in 1..Len(s.student_dict.items) :
        InList(s.student_dict.items[i][2], s.selected_groups)}

ItemName(i) == TheSession.student_dict.items[i][1]
ItemGroup(i) == TheSession.student_dict.items[i][2]

\* some row of the results table matches the name
HasMatch(name) ==
    \E i \in RowNumbers(TheSession.df_results) :
        OneTokenMatch(name, Series(TheSession.df_results, i))

\* the first row of the results table that matches the name
FirstMatch(name) ==
    CHOOSE i \in RowNumbers(TheSession.df_results) :
        /\ OneTokenMatch(name, Series(TheSession.df_results, i))
        /\ \A k \in 1..(i - 1) : ~OneTokenMatch(name, Series(TheSession.df_results, k))

Categories == {"lecture", "lab", "final"}

FileName(cat) ==
    IF cat = "lecture" THEN "lectures.xlsx" ELSE IF cat = "lab" THEN "labs.xlsx" ELSE "finals.xlsx"

ExportFlag(cat) ==
    IF cat = "lecture" THEN TheSession.export_lectures
    ELSE IF cat = "lab" THEN TheSession.export_labs
    ELSE TheSession.export_finals

\* the test columns of a category, read off the headers
CategoryColumns(cat) ==
    {col \in ColumnSet(TheSession.df_results) :
        /\ Contains(kw_test, lower(str(col)))
        /\ cat = (IF HasFinalKeyword(col) THEN "final"
                  ELSE IF HasLectureKeyword(col) THEN "lecture" ELSE "lab")}

\* the rows of the returned documents of a category, as <<file, sheet, row>> positions
RowRefs(cat) ==
    UNION { UNION { {<<f, sh, r>> : r \in 1..Len(Result.files[f].sheets[sh].data)} :
                    sh \in 1..Len(Result.files[f].sheets) } :
            f \in {g \in 1..Len(Result.files) : Result.files[g].filename = FileName(cat)} }

SheetAt(ref) == Result.files[ref[1]].sheets[ref[2]]
RowAt(ref) == SheetAt(ref).data[ref[3]]

\* the cell of row i of the results table under a header
CellOf(i, col) ==
    LET df == TheSession.df_results IN
    df.rows[i][CHOOSE j \in 1..Len(df.columns) : df.columns[j] = col]

(* C1: a processing run returns matched_count and unmatched_count whose    *)
(* sum is the number of roster entries with a selected group; each such    *)
(* student is counted exactly once, in matched_count if a results row was  *)
(* found for them and in unmatched_count otherwise, whatever the number of *)
(* enabled categories.                                                     *)
C1_CountsPartition ==
    ProcessReturned =>
        /\ Result.found_students + Result.not_found = Cardinality(SelectedItems)
        /\ Result.found_students = Cardinality({i \in SelectedItems : HasMatch(ItemName(i))})
        /\ Result.not_found = Cardinality({i \in SelectedItems : ~HasMatch(ItemName(i))})

\* two selected students, one found and one not, with rows built in three categories
C1_Witness ==
    /\ ProcessReturned
    /\ Cardinality(SelectedItems) = 2
    /\ Result.found_students = 1
    /\ Result.not_found = 1
    /\ Len(Result.files) = 3

(* C4: for every student in a selected group and every category whose     *)
(* export flag is on and whose test-column list is not empty, the run      *)
(* builds exactly one row with that student's name and group; it builds no *)
(* row for a category whose flag is off or whose column list is empty, and *)
(* no row for a student whose group is not selected.                       *)
C4_OneRowPerStudentAndCategory ==
    ProcessReturned =>
        \A cat \in Categories :
            IF ExportFlag(cat) /\ CategoryColumns(cat) # {}
            THEN /\ \A i \in SelectedItems :
                        /\ Cardinality({ref \in RowRefs(cat) : RowAt(ref).fio = ItemName(i)}) = 1
                        /\ \A ref \in RowRefs(cat) :
                               RowAt(ref).fio = ItemName(i) => RowAt(ref).group = ItemGroup(i)
                 /\ \A ref \in RowRefs(cat) :
                        \E i \in SelectedItems : RowAt(ref).fio = ItemName(i)
            ELSE RowRefs(cat) = {}

\* both groups selected with a student in each, lectures exported and labs not:
\* two lecture rows and no lab row although the table has a lab column
C4_Witness ==
    /\ ProcessReturned
    /\ Cardinality(SelectedItems) = 2
    /\ Len(TheSession.selected_groups) = 2
    /\ ItemGroup(1) # ItemGroup(2)
    /\ TheSession.export_lectures /\ ~TheSession.export_labs
    /\ CategoryColumns("lab") # {}
    /\ Cardinality(RowRefs("lecture")) = 2
    /\ RowRefs("lab") = {}

(* C5: when no results row matches a selected student, the student is      *)
(* counted as unmatched and every test column of every row built for them  *)
(* holds NOT_AVAILABLE: no converted grade appears in such a row.          *)
C5_UnmatchedNotAvailable ==
    ProcessReturned =>
        /\ \A i \in SelectedItems :
               ~HasMatch(ItemName(i)) =>
                   \A cat \in Categories : \A ref \in RowRefs(cat) :
                       RowAt(ref).fio = ItemName(i) =>
                           \A k \in 1..Len(RowAt(ref).grades) :
                               RowAt(ref).grades[k][2] = NOT_AVAILABLE
        /\ Result.not_found >= Cardinality({i \in SelectedItems : ~HasMatch(ItemName(i))})

\* the scenario of the roster (Ivanov Ivan: G1, Petrov Petr: G2), one results row
\* 'Ivanov I.' with lecture grade '8,5'
ScenarioSession ==
    /\ TheSession.student_dict = Dict(<<<<N_ivanov, G1>>, <<N_petrov, G2>>>>)
    /\ TheSession.df_results =
           [columns |-> <<H_fio, H_lecture_test>>, rows |-> << <<Cell_ivanov_i, Grade_8c5>> >>]
    /\ TheSession.export_lectures

\* the scenario with G2 selected: Petrov is unmatched, his lecture row holds NOT_AVAILABLE
C5_Witness ==
    /\ ProcessReturned
    /\ ScenarioSession
    /\ TheSession.selected_groups = <<G2>>
    /\ Result.found_students = 0
    /\ Result.not_found = 1
    /\ \E ref \in RowRefs("lecture") :
           RowAt(ref) = [fio |-> N_petrov, group |-> G2,
                         grades |-> << <<H_lecture_test, NOT_AVAILABLE>> >>]

(* C6: for a matched student, the value under each test column of their    *)
(* row is convert_grade of the cell of the matched results row (the first  *)
(* row that matches) in that column; in the scenario with G1 selected the  *)
(* run gives matched 1, unmatched 0 and one lecture document whose only    *)
(* row is (Ivanov Ivan, G1, 4).                                            *)
C6_MatchedGrades ==
    ProcessReturned =>
        /\ \A i \in SelectedItems :
               HasMatch(ItemName(i)) =>
                   LET m == FirstMatch(ItemName(i)) IN
                   \A cat \in Categories :
                       LET cols == CategoryColumns(cat) IN
                       \A ref \in RowRefs(cat) :
                           RowAt(ref).fio = ItemName(i) =>
                               /\ Len(RowAt(ref).grades) = Cardinality(cols)
                               /\ \A k \in 1..Len(RowAt(ref).grades) :
                                      LET col == RowAt(ref).grades[k][1] IN
                                      /\ col \in cols
                                      /\ col = SheetAt(ref).columns[k + 2]
                                      /\ RowAt(ref).grades[k][2] =
                                             convert_grade(CellOf(m, col))
        /\ ScenarioSession /\ TheSession.selected_groups = <<G1>> =>
               /\ Result.found_students = 1
               /\ Result.not_found = 0
               /\ \E f \in 1..Len(Result.files) :
                      /\ Result.files[f].filename = "lectures.xlsx"
                      /\ Len(Result.files[f].sheets) = 1
                      /\ Result.files[f].sheets[1].data =
                             << [fio |-> N_ivanov, group |-> G1,
                                 grades |-> << <<H_lecture_test, PyInt(4)>> >>] >>
               /\ Cardinality(RowRefs("lecture")) = 1

\* the scenario with G1 selected has run: Ivanov Ivan, matched to 'Ivanov I.', has grade 4
C6_Witness ==
    /\ ProcessReturned
    /\ ScenarioSession
    /\ TheSession.selected_groups = <<G1>>
    /\ \E ref \in RowRefs("lecture") :
           RowAt(ref) = [fio |-> N_ivanov, group |-> G1,
                         grades |-> << <<H_lecture_test, PyInt(4)>> >>]

\* the groups of the selection
SelectedGroupSet ==
    {TheSession.selected_groups[i] : i \in 1..Len(TheSession.selected_groups)}

\* the category has a row: it is enabled, has test columns, and a student is selected
CategoryHasRows(cat) ==
    ExportFlag(cat) /\ CategoryColumns(cat) # {} /\ SelectedItems # {}

FilesOf(cat) == {f \in 1..Len(Result.files) : Result.files[f].filename = FileName(cat)}

(* C12: a processing run returns exactly one document for each category    *)
(* that is enabled and has at least one row and none for any other         *)
(* category; a document has one sheet for each selected group that has a   *)
(* row and no other sheet; every sheet row is the row of a roster entry    *)
(* of that sheet's group, which is a selected group.                       *)
C12_DocumentsAndSheets ==
    ProcessReturned =>
        /\ Len(Result.files) = Cardinality({cat \in Categories : CategoryHasRows(cat)})
        /\ \A cat \in Categories :
               /\ Cardinality(FilesOf(cat)) = IF CategoryHasRows(cat) THEN 1 ELSE 0
               /\ \A f \in FilesOf(cat) :
                      LET sheets == Result.files[f].sheets IN
                      /\ \A g \in SelectedGroupSet :
                             Cardinality({sh \in 1..Len(sheets) :
                                             sheets[sh].sheet_name = SheetName(g)})
                                 = IF \E i \in SelectedItems : ItemGroup(i) = g THEN 1 ELSE 0
                      /\ \A sh \in 1..Len(sheets) :
                             /\ sheets[sh].data # <<>>
                             /\ \E g \in SelectedGroupSet :
                                    /\ sheets[sh].sheet_name = SheetName(g)
                                    /\ \A r \in 1..Len(sheets[sh].data) :
                                           /\ sheets[sh].data[r].group = g
                                           /\ \E i \in SelectedItems :
                                                  /\ ItemName(i) = sheets[sh].data[r].fio
                                                  /\ ItemGroup(i) = g

\* two groups selected and only one of them has a student: the lecture document has
\* one sheet; labs are switched off although the table has a lab test: no lab document
C12_Witness ==
    /\ ProcessReturned
    /\ Len(TheSession.selected_groups) = 2
    /\ Cardinality(SelectedItems) = 1
    /\ Len(TheSession.student_dict.items) = 1
    /\ TheSession.export_lectures /\ ~TheSession.export_labs /\ ~TheSession.export_finals
    /\ CategoryColumns("lab") # {}
    /\ Len(Result.files) = 1
    /\ Result.files[1].filename = "lectures.xlsx"
    /\ Len(Result.files[1].sheets) = 1

---------------------------------------------------------------------------
(* Specification SpecRoster: read_students_list on workbooks of up to      *)
(* MaxSheetRows rows taken from a pool of roster rows, two or four cells   *)
(* wide, and on an unreadable upload.                                      *)

MaxSheetRows == 4

N_petrov_padded == PyStr(<<32>> \o N_petrov.str \o <<32>>)                  \* ' Petrov Petr '
N_sidorov == PyStr(<<83, 105, 100, 111, 114, 111, 118>>)                   \* 'Sidorov'
G_evening == PyStr(<<101, 118, 101, 110, 105, 110, 103>>)                  \* 'evening'
N_blank == PyStr(<<32, 32>>)                                               \* '  '

RosterRowPool ==
    { <<PyInt(1), N_ivanov, G1, NaN>>,            \* number, name, group
      <<PyInt(2), N_petrov_padded, G2, NaN>>,     \* a name with spaces around it
      <<N_ivanov, G1, NaN, NaN>>,                 \* name and group one cell to the left
      <<NaN, N_sidorov, G_evening, NaN>>,         \* a one-word name, a group without a digit
      <<PyInt(3), PyInt(123), G1, NaN>>,          \* a number where the name should be
      <<PyInt(4), N_ivanov, G2, NaN>>,            \* the first name again, another group
      <<NaN, N_blank, G1, NaN>> }                 \* white space where the name should be

SheetWidths == {2, 4}

Workbooks ==
    {[sheet |-> [i \in 1..Len(rs) |-> SubSeq(rs[i], 1, w)]] :
        rs \in UNION {[1..n -> RosterRowPool] : n \in 0..MaxSheetRows}, w \in SheetWidths}

InitRoster ==
    /\ file_content \in Workbooks \cup {Unreadable}
    /\ students_list = <<"pending">>
    /\ BotIdle
    /\ GradeIdle
    /\ CategorizeIdle
    /\ TestsIdle
    /\ FindIdle
    /\ ProcessIdle

ReadStudentsList ==
    /\ students_list = <<"pending">>
    /\ students_list' = read_students_list(file_content)
    /\ UNCHANGED <<file_content, botVars, gradeVars, categorizeVars, testsVars, findVars,
                   processVars>>

NextRoster == ReadStudentsList

SpecRoster == InitRoster /\ [][NextRoster]_vars

RosterReturned == students_list[1] = "return"
RosterItems == students_list[2].items
Sheet == file_content.sheet

\* the text of a cell without the white space around it
Trimmed(cell) == strip(str(cell))

PurelyNumeric(t) == t # <<>> /\ \A i \in 1..Len(t) : IsDigitChar(t[i])

\* row k of the sheet gives an entry under the fixed layout: it comes after the
\* first two rows, its second and third cells are present, and the text of the
\* second is not empty and not a number
FixedLayoutRow(k) ==
    /\ k \in 3..Len(Sheet)
    /\ Len(Sheet[k]) >= 3
    /\ ~isna(Sheet[k][2]) /\ ~isna(Sheet[k][3])
    /\ Trimmed(Sheet[k][2]) # <<>>
    /\ ~PurelyNumeric(Trimmed(Sheet[k][2]))

FixedLayoutRows == {k \in 1..Len(Sheet) : FixedLayoutRow(k)}

InteriorSpace(t) == \E i \in 2..(Len(t) - 1) : IsSpace(t[i])

(* C13 as amended: read_students_list returns for every readable workbook; *)
(* every full name of the returned mapping is non-empty, has no white      *)
(* space around it and is not purely numeric (an interior space is not     *)
(* required: a one-word name is kept); a row after the first two whose     *)
(* second or third cell is missing, or whose second cell is blank or a     *)
(* number, contributes no entry and does not abort the parse.              *)
C13_NonEmptyNotNumeric ==
    /\ (file_content # Unreadable /\ students_list # <<"pending">>) => RosterReturned
    /\ RosterReturned =>
           /\ \A i \in 1..Len(RosterItems) :
                  LET name == RosterItems[i][1].str IN
                  /\ name # <<>>
                  /\ ~IsSpace(name[1]) /\ ~IsSpace(name[Len(name)])
                  /\ ~PurelyNumeric(name)
                  /\ \E k \in FixedLayoutRows : Trimmed(Sheet[k][2]) = name
           /\ \A k \in FixedLayoutRows :
                  \E i \in 1..Len(RosterItems) : RosterItems[i][1].str = Trimmed(Sheet[k][2])

\* a one-word name was kept while a row with a number and a row with white space in
\* the name cell were skipped
C13_Witness ==
    /\ RosterReturned
    /\ Len(Sheet) = 4
    /\ Sheet[3] = <<PyInt(3), PyInt(123), G1, NaN>>
    /\ Sheet[4] = <<NaN, N_sidorov, G_evening, NaN>>
    /\ RosterItems = << <<N_sidorov, G_evening>> >>

(* C13 as stated: every full name of the returned mapping is non-empty,    *)
(* contains at least one interior space and is not purely numeric.         *)
C13_InteriorSpace ==
    RosterReturned =>
        \A i \in 1..Len(RosterItems) :
            LET name == RosterItems[i][1].str IN
            name # <<>> /\ InteriorSpace(name) /\ ~PurelyNumeric(name)

\* the last row of the fixed layout that gives the name
LastRowOf(name) ==
    CHOOSE k \in FixedLayoutRows :
        /\ Trimmed(Sheet[k][2]) = name
        /\ \A m \in FixedLayoutRows : Trimmed(Sheet[m][2]) = name => m <= k

(* C14 as amended: read_students_list takes the name from the second cell  *)
(* of a row and the group from the third cell, and from no other cell: the *)
(* returned mapping has exactly the names of the second cells of the rows  *)
(* of the fixed layout, in the order of their first row, each with the     *)
(* text of the third cell of its last row, with or without a digit.        *)
C14_FixedColumns ==
    RosterReturned =>
        /\ {RosterItems[i][1].str : i \in 1..Len(RosterItems)}
               = {Trimmed(Sheet[k][2]) : k \in FixedLayoutRows}
        /\ \A i, j \in 1..Len(RosterItems) :
               i < j =>
                   /\ RosterItems[i][1] # RosterItems[j][1]
                   /\ \E k \in FixedLayoutRows :
                          /\ Trimmed(Sheet[k][2]) = RosterItems[i][1].str
                          /\ \A m \in FixedLayoutRows :
                                 Trimmed(Sheet[m][2]) = RosterItems[j][1].str => k < m
        /\ \A i \in 1..Len(RosterItems) :
               RosterItems[i][2].str = Trimmed(Sheet[LastRowOf(RosterItems[i][1].str)][3])

\* a row with the name in its first cell gave nothing, and a group without a digit
\* was accepted from the third cell
C14_Witness ==
    /\ RosterReturned
    /\ Len(Sheet) = 4
    /\ Sheet[3] = <<N_ivanov, G1, NaN, NaN>>
    /\ Sheet[4] = <<NaN, N_sidorov, G_evening, NaN>>
    /\ RosterItems = << <<N_sidorov, G_evening>> >>

IsLetter(c) == c \in (65..90) \cup (97..122) \cup (1040..1103)
HasDigit(t) == \E i \in 1..Len(t) : IsDigit(t[i])

\* a candidate name cell: text with a letter and an interior space, not a number
QualifyingCell(cell) ==
    /\ ~isna(cell)
    /\ LET t == Trimmed(cell) IN
       /\ \E i \in 1..Len(t) : IsLetter(t[i])
       /\ InteriorSpace(t)
       /\ ~PurelyNumeric(t)

\* the first qualifying cell among the first five cells of a row, 0 if none
FirstQualifying(row) ==
    LET window == {j \in 1..Len(row) : j <= 5 /\ QualifyingCell(row[j])} IN
    IF window = {} THEN 0
    ELSE CHOOSE j \in window : \A m \in window : j <= m

(* C14 as stated: the name of a row is its first qualifying cell among the *)
(* first five, wherever it sits, and the next cell is the group only if it *)
(* has a digit: a row after the skipped ones with such a pair gives an     *)
(* entry for that name, and no returned group is without a digit.          *)
C14_ScanWindow ==
    RosterReturned =>
        /\ \A k \in 3..Len(Sheet) :
               LET j == FirstQualifying(Sheet[k]) IN
               (/\ j > 0 /\ j < Len(Sheet[k])
                /\ ~isna(Sheet[k][j + 1])
                /\ HasDigit(Trimmed(Sheet[k][j + 1])))
                   => \E i \in 1..Len(RosterItems) :
                          RosterItems[i][1].str = Trimmed(Sheet[k][j])
        /\ \A i \in 1..Len(RosterItems) : HasDigit(RosterItems[i][2].str)

\* a row that would give an entry if it were not one of the first two rows
LeadingStudentRow(k) ==
    /\ k \in 1..2 /\ k <= Len(Sheet)
    /\ Len(Sheet[k]) >= 3
    /\ ~isna(Sheet[k][2]) /\ ~isna(Sheet[k][3])
    /\ Trimmed(Sheet[k][2]) # <<>>
    /\ ~PurelyNumeric(Trimmed(Sheet[k][2]))

(* C15 as amended: read_students_list always drops the first two rows of   *)
(* the sheet and never falls back to them: when no row after the first two *)
(* gives an entry the returned roster is empty, also when the first two    *)
(* rows hold student rows, and the call does not fail.                     *)
C15_NoFallback ==
    /\ (file_content # Unreadable /\ students_list # <<"pending">>) => RosterReturned
    /\ RosterReturned => (FixedLayoutRows = {} => RosterItems = <<>>)
    /\ RosterReturned =>
           \A i \in 1..Len(RosterItems) :
               \E k \in 3..Len(Sheet) :
                   /\ Len(Sheet[k]) >= 3
                   /\ Trimmed(Sheet[k][2]) = RosterItems[i][1].str
                   /\ ~isna(Sheet[k][3])
                   /\ Trimmed(Sheet[k][3]) = RosterItems[i][2].str

\* the only student rows are the first two rows of the sheet: the roster is empty
C15_Witness ==
    /\ RosterReturned
    /\ Len(Sheet) = 3
    /\ Sheet[1] = <<PyInt(1), N_ivanov, G1, NaN>>
    /\ Sheet[2] = <<PyInt(2), N_petrov_padded, G2, NaN>>
    /\ FixedLayoutRows = {}
    /\ RosterItems = <<>>

(* C15 as stated: when the rows after the skipped ones give no entry, the  *)
(* sheet is scanned from its first row, so student rows among the skipped  *)
(* rows still give a non-empty roster.                                     *)
C15_FallbackToFirstRow ==
    RosterReturned =>
        ((FixedLayoutRows = {} /\ \E k \in 1..2 : LeadingStudentRow(k)) => RosterItems # <<>>)

---------------------------------------------------------------------------
(* Specification Spec: the bot from its construction, one caller sending   *)
(* /start, button presses and documents in any order.  A press can carry   *)
(* any callback data at any time: the keyboards of earlier messages stay   *)
(* in the chat.                                                            *)

MaxNestedCalls == 2
MaxEvents == 2

T_no == PyStr(<<78, 111>>)                          \* 'No'
T_name == PyStr(<<78, 97, 109, 101>>)               \* 'Name'
T_group == PyStr(<<71, 114, 111, 117, 112>>)        \* 'Group'

\* a results workbook: a name column, a lecture test and a lab test, one student
ResultsBook ==
    [sheet |-> << <<H_fio, H_lecture_test, H_test1>>,
                  <<Cell_ivanov_i, Grade_8c5, PyInt(9)>> >>]

\* a roster workbook: two title rows, then two students of group G1
RosterBook ==
    [sheet |-> << <<T_no, T_name, T_group>>,
                  <<NaN, NaN, NaN>>,
                  <<PyInt(1), N_ivanov, G1>>,
                  <<PyInt(2), N_petrov, G1>> >>]

Uploads == {ResultsBook, RosterBook, Unreadable}

\* the groups of the toggle_group_ buttons
ButtonGroups == {G1}

\* the send that fails while the documents are delivered, 0 for none
FailurePoints == 0..4

\* the update is handled: the sessions and the answer are as the handler leaves them
Handled(user_id, data, arg, outcome) ==
    /\ \E o \in {outcome} :
           /\ user_sessions' = o.user_sessions
           /\ last_event' = [user |-> user_id, data |-> data, arg |-> arg,
                             reply |-> o.reply, documents |-> o.documents,
                             process_data |-> o.process_data]
    /\ events' = IF events < MaxEvents THEN events + 1 ELSE events
    /\ UNCHANGED <<processed, rosterVars, gradeVars, categorizeVars, testsVars, findVars>>

Start(u) == Handled(u, "/start", None, start(user_sessions, u))

LoadResults(u) == Handled(u, "load_results", None, load_results(user_sessions, u))

LoadStudents(u) == Handled(u, "load_students", None, load_students(user_sessions, u))

Configure(u) == Handled(u, "configure", None, configure(user_sessions, u))

Process(u) ==
    \E fail_at \in FailurePoints :
        Handled(u, "process", None, process(user_sessions, u, fail_at))

ToggleGroup(u) ==
    \E group \in ButtonGroups :
        Handled(u, "toggle_group_", group, toggle_group(user_sessions, u, group))

SelectAllGroups(u) ==
    Handled(u, "select_all_groups", None, select_all_groups(user_sessions, u))

DeselectAllGroups(u) ==
    Handled(u, "deselect_all_groups", None, deselect_all_groups(user_sessions, u))

ExportTypes(u) == Handled(u, "export_types", None, export_types(user_sessions, u))

ToggleLectures(u) ==
    \E calls \in 1..MaxNestedCalls :
        Handled(u, "toggle_lectures", None, toggle_lectures(user_sessions, u, calls))

ToggleLabs(u) ==
    \E calls \in 1..MaxNestedCalls :
        Handled(u, "toggle_labs", None, toggle_labs(user_sessions, u, calls))

ToggleFinals(u) ==
    \E calls \in 1..MaxNestedCalls :
        Handled(u, "toggle_finals", None, toggle_finals(user_sessions, u, calls))

BackToMain(u) == Handled(u, "back_to_main", None, back_to_main(user_sessions, u))

HandleDocument(u) ==
    \E content \in Uploads :
        Handled(u, "document", content, handle_document(user_sessions, u, content))

Init ==
    /\ ProcessIdle
    /\ BotIdle
    /\ RosterIdle
    /\ GradeIdle
    /\ CategorizeIdle
    /\ TestsIdle
    /\ FindIdle

Next ==
    \E u \in ProcessUsers :
        \/ Start(u)
        \/ LoadResults(u)
        \/ LoadStudents(u)
        \/ Configure(u)
        \/ Process(u)
        \/ ToggleGroup(u)
        \/ SelectAllGroups(u)
        \/ DeselectAllGroups(u)
        \/ ExportTypes(u)
        \/ ToggleLectures(u)
        \/ ToggleLabs(u)
        \/ ToggleFinals(u)
        \/ BackToMain(u)
        \/ HandleDocument(u)

Spec == Init /\ [][Next]_vars

---------------------------------------------------------------------------
(* Claims about the handlers, under Spec *)

\* the update handled last was a press of the button with this callback data
Pressed(data) == last_event # None /\ last_event.data = data

\* the step handles a press of the button with this callback data by caller u
Presses(u, data) ==
    /\ last_event' # None
    /\ last_event'.user = u
    /\ last_event'.data = data

\* the session of the caller of the update handled last has no results table
\* or no roster (the process branch leaves the sessions as they are)
DataMissing ==
    /\ last_event.user \in DOMAIN user_sessions
    /\ \/ user_sessions[last_event.user].df_results = None
       \/ user_sessions[last_event.user].student_dict = None

(* C16: whenever a processing request is made in a session whose results   *)
(* table or roster has not been loaded (a session fresh from /start, or    *)
(* one with only one of the two files), the request fails with the         *)
(* 'data not loaded' exception of the guard at the start of process_data   *)
(* and no document is sent.                                                *)
C16_DataNotLoaded ==
    (Pressed("process") /\ DataMissing) =>
        /\ last_event.process_data[1] = "raise"
        /\ last_event.process_data[2] = "Exception: data not loaded"
        /\ last_event.documents = <<>>

\* nothing is selected for the export in this session
NothingSelected(session) ==
    \/ session.selected_groups = <<>>
    \/ ~(session.export_lectures \/ session.export_labs \/ session.export_finals)

(* C17: a press of 'process' while the caller's list of selected groups is *)
(* empty, or while all three export flags are off, is answered with an     *)
(* error message, makes no call of process_data, sends no document and     *)
(* leaves the sessions as they were.                                       *)
C17_NothingSelected ==
    [][\A u \in ProcessUsers :
          (/\ Presses(u, "process")
           /\ u \in DOMAIN user_sessions
           /\ NothingSelected(user_sessions[u]))
          => /\ last_event'.reply \in {"select_a_group", "select_an_export_type"}
             /\ last_event'.process_data = NotCalled
             /\ last_event'.documents = <<>>
             /\ user_sessions' = user_sessions]_vars

\* 'process' was pressed with a group selected and all three export flags off
C17_Witness ==
    /\ Pressed("process")
    /\ last_event.user \in DOMAIN user_sessions
    /\ user_sessions[last_event.user].selected_groups # <<>>
    /\ NothingSelected(user_sessions[last_event.user])
    /\ last_event.reply = "select_an_export_type"

(* C19: a processing request is all or nothing: when it is answered with   *)
(* the processing error, none of its documents has been delivered.         *)
C19_AllOrNothing ==
    (Pressed("process") /\ last_event.reply = "processing_error")
        => last_event.documents = <<>>

\* the three export flags of a session
Flags(session) ==
    [export_lectures |-> session.export_lectures,
     export_labs |-> session.export_labs,
     export_finals |-> session.export_finals]

(* C20: handling one press of 'toggle_lectures', 'toggle_labs' or          *)
(* 'toggle_finals' leaves the flag of the button negated and the other two *)
(* flags as they were.                                                     *)
C20_FlippedOncePerPress ==
    [][\A u \in ProcessUsers :
          u \in DOMAIN user_sessions =>
              /\ Presses(u, "toggle_lectures") =>
                     Flags(user_sessions'[u]) =
                         [Flags(user_sessions[u]) EXCEPT !.export_lectures = ~@]
              /\ Presses(u, "toggle_labs") =>
                     Flags(user_sessions'[u]) =
                         [Flags(user_sessions[u]) EXCEPT !.export_labs = ~@]
              /\ Presses(u, "toggle_finals") =>
                     Flags(user_sessions'[u]) =
                         [Flags(user_sessions[u]) EXCEPT !.export_finals = ~@]]_vars

\* the document of the step cannot be decoded for the slot the session waits for
DecodingFails(session) ==
    \/ session.step = WAITING_RESULTS /\ read_excel(last_event'.arg)[1] = "raise"
    \/ session.step = WAITING_STUDENTS /\ read_students_list(last_event'.arg)[1] = "raise"

(* C22: when the uploaded file cannot be decoded, handle_document answers  *)
(* with the upload error and leaves every session as it was: the results   *)
(* table, the roster, the selected groups, the export flags, and the step, *)
(* which stays at its waiting value.                                       *)
C22_FailedUploadKeepsSession ==
    [][\A u \in ProcessUsers :
          (/\ Presses(u, "document")
           /\ u \in DOMAIN user_sessions
           /\ DecodingFails(user_sessions[u]))
          => /\ last_event'.reply = "upload_error"
             /\ user_sessions' = user_sessions
             /\ user_sessions'[u].step \in {WAITING_RESULTS, WAITING_STUDENTS}]_vars

\* an unreadable file arrived for the roster slot of a session that holds a
\* roster and a selection, and the session still waits for the roster
C22_Witness ==
    /\ Pressed("document")
    /\ last_event.arg = Unreadable
    /\ last_event.reply = "upload_error"
    /\ last_event.user \in DOMAIN user_sessions
    /\ user_sessions[last_event.user].step = WAITING_STUDENTS
    /\ user_sessions[last_event.user].student_dict # None
    /\ user_sessions[last_event.user].selected_groups # <<>>

\* the session with the two slots and the step blanked
OutsideSlots(session) ==
    [session EXCEPT !.df_results = None, !.student_dict = None, !.step = None]

(* C23: a document is stored only into the slot the step names: waiting    *)
(* for the results only df_results is replaced, waiting for the roster     *)
(* only student_dict, and a stored document resets the step to None; a     *)
(* document that arrives without a session or with step None is rejected   *)
(* and changes nothing, so a document is stored only after a press of a    *)
(* load button that no stored document has used up.                        *)
C23_StoredInSlotOfStep ==
    [][\A u \in ProcessUsers :
          Presses(u, "document") =>
              IF u \notin DOMAIN user_sessions
              THEN /\ last_event'.reply = "choose_an_action_first"
                   /\ user_sessions' = user_sessions
              ELSE IF user_sessions[u].step = None
              THEN /\ last_event'.reply = "choose_an_action_first"
                   /\ user_sessions' = user_sessions
              ELSE IF DecodingFails(user_sessions[u])
              THEN user_sessions' = user_sessions
              ELSE /\ OutsideSlots(user_sessions'[u]) = OutsideSlots(user_sessions[u])
                   /\ user_sessions'[u].step = None
                   /\ IF user_sessions[u].step = WAITING_RESULTS
                      THEN /\ last_event'.reply = "results_loaded"
                           /\ user_sessions'[u].df_results = read_excel(last_event'.arg)[2]
                           /\ user_sessions'[u].student_dict = user_sessions[u].student_dict
                      ELSE /\ last_event'.reply = "students_loaded"
                           /\ user_sessions'[u].student_dict =
                                  read_students_list(last_event'.arg)[2]
                           /\ user_sessions'[u].df_results = user_sessions[u].df_results]_vars

\* a roster was stored beside a results table and the step is None again
C23_Witness ==
    /\ Pressed("document")
    /\ last_event.reply = "students_loaded"
    /\ user_sessions[last_event.user].step = None
    /\ user_sessions[last_event.user].df_results # None
    /\ user_sessions[last_event.user].student_dict # None

\* the callback data of the buttons
Buttons ==
    {"load_results", "load_students", "configure", "process", "toggle_group_",
     "select_all_groups", "deselect_all_groups", "export_types",
     "toggle_lectures", "toggle_labs", "toggle_finals"}

(* C24: for a caller without a session every button press is handled       *)
(* without an exception leaving button_handler: it ends with a reply of    *)
(* the handler and creates or changes no session.                          *)
C24_NoSessionNoException ==
    [][\A u \in ProcessUsers :
          (/\ u \notin DOMAIN user_sessions
           /\ \E data \in Buttons : Presses(u, data))
          => /\ last_event'.reply # "error_handler"
             /\ user_sessions' = user_sessions]_vars

---------------------------------------------------------------------------
(* Specification SpecIsolation: two callers.  It starts after each caller  *)
(* has gone through one of a few histories of its own, the first caller    *)
(* before the second, and then handles up to MaxIsolationEvents updates    *)
(* from the two callers in any order.                                      *)

MaxIsolationEvents == 1

IsolationUsers == {1, 2}

Event(data, arg) == [data |-> data, arg |-> arg]

\* the handler an update goes to: /start, the branches of button_handler by
\* query.data, or handle_document; no send fails
Dispatch(sessions, user_id, event) ==
    IF event.data = "/start" THEN start(sessions, user_id)
    ELSE IF event.data = "load_results" THEN load_results(sessions, user_id)
    ELSE IF event.data = "load_students" THEN load_students(sessions, user_id)
    ELSE IF event.data = "configure" THEN configure(sessions, user_id)
    ELSE IF event.data = "process" THEN process(sessions, user_id, 0)
    ELSE IF event.data = "toggle_group_" THEN toggle_group(sessions, user_id, event.arg)
    ELSE IF event.data = "select_all_groups" THEN select_all_groups(sessions, user_id)
    ELSE IF event.data = "deselect_all_groups" THEN deselect_all_groups(sessions, user_id)
    ELSE IF event.data = "export_types" THEN export_types(sessions, user_id)
    ELSE IF event.data = "toggle_lectures" THEN toggle_lectures(sessions, user_id, event.arg)
    ELSE IF event.data = "toggle_labs" THEN toggle_labs(sessions, user_id, event.arg)
    ELSE IF event.data = "toggle_finals" THEN toggle_finals(sessions, user_id, event.arg)
    ELSE IF event.data = "back_to_main" THEN back_to_main(sessions, user_id)
    ELSE handle_document(sessions, user_id, event.arg)

\* the sessions after the caller's updates of a history were handled in order
RECURSIVE After(_, _, _)
After(sessions, user_id, history) ==
    IF history = <<>> THEN sessions
    ELSE After(Dispatch(sessions, user_id, Head(history)).user_sessions,
               user_id, Tail(history))

\* the caller is waiting to upload the results
H_waiting == << Event("/start", None), Event("load_results", None) >>

\* the caller has uploaded the results only
H_results == H_waiting \o << Event("document", ResultsBook) >>

\* the caller has uploaded both files and selected group G1
H_ready ==
    H_results \o << Event("load_students", None), Event("document", RosterBook),
                    Event("toggle_group_", G1) >>

\* the same with the export of the lecture tests switched off
H_no_lectures == H_ready \o << Event("toggle_lectures", 1) >>

Histories ==
    { <<>>, << Event("/start", None) >>, H_waiting, H_results, H_ready, H_no_lectures }

InitIsolation ==
    /\ \E h1 \in Histories, h2 \in Histories :
           user_sessions = After(After(<<>>, 1, h1), 2, h2)
    /\ processed = <<"idle">>
    /\ BotIdle
    /\ RosterIdle
    /\ GradeIdle
    /\ CategorizeIdle
    /\ TestsIdle
    /\ FindIdle

\* fewer than MaxIsolationEvents updates were handled since the start
Open == events < MaxIsolationEvents

NextIsolation ==
    \E u \in IsolationUsers :
        \/ Open /\ Start(u)
        \/ Open /\ LoadResults(u)
        \/ Open /\ LoadStudents(u)
        \/ Open /\ Configure(u)
        \/ Open /\ Process(u)
        \/ Open /\ ToggleGroup(u)
        \/ Open /\ SelectAllGroups(u)
        \/ Open /\ DeselectAllGroups(u)
        \/ Open /\ ExportTypes(u)
        \/ Open /\ ToggleLectures(u)
        \/ Open /\ ToggleLabs(u)
        \/ Open /\ ToggleFinals(u)
        \/ Open /\ BackToMain(u)
        \/ Open /\ HandleDocument(u)

SpecIsolation == InitIsolation /\ [][NextIsolation]_vars

\* the sessions with every caller but this one removed
Own(sessions, user_id) == [v \in DOMAIN sessions \cap {user_id} |-> sessions[v]]

\* one sequence is the beginning of the other
IsPrefix(short, long) ==
    /\ Len(short) <= Len(long)
    /\ short = SubSeq(long, 1, Len(short))

(* C18: no update of one caller changes the session of the other caller,   *)
(* or creates or removes it, and what a press of 'process' computes and    *)
(* sends for the caller is what it computes and sends when the caller's    *)
(* session is the only one.                                                *)
C18_Isolation ==
    [][\A a \in IsolationUsers :
          (last_event' # None /\ last_event'.user = a) =>
              /\ \A b \in IsolationUsers \ {a} :
                     Own(user_sessions', b) = Own(user_sessions, b)
              /\ last_event'.data = "process" =>
                     /\ last_event'.process_data =
                            process(Own(user_sessions, a), a, 0).process_data
                     /\ IsPrefix(last_event'.documents,
                                 process(Own(user_sessions, a), a, 0).documents)]_vars

\* a processing run of one caller sent its documents while the other caller
\* had a session with a results table and other settings
C18_Witness ==
    /\ Pressed("process")
    /\ last_event.documents # <<>>
    /\ \E b \in IsolationUsers \ {last_event.user} :
           /\ b \in DOMAIN user_sessions
           /\ user_sessions[b].df_results # None
           /\ user_sessions[b] # user_sessions[last_event.user]

---------------------------------------------------------------------------
(* Specification SpecSelection: one caller sending /start, the load        *)
(* buttons, documents, 'configure' and the buttons of the group menu.  A   *)
(* toggle_group_ button is pressed only for a group of the session's       *)
(* available_groups, the groups the last group menu was drawn with.        *)

\* another roster workbook: one student of group G2
RosterBookG2 ==
    [sheet |-> << <<T_no, T_name, T_group>>,
                  <<NaN, NaN, NaN>>,
                  <<PyInt(1), N_sidorov, G2>> >>]

SelectionUploads == {ResultsBook, RosterBook, RosterBookG2, Unreadable}

\* a document of SelectionUploads arrives
Upload(u) ==
    \E content \in SelectionUploads :
        Handled(u, "document", content, handle_document(user_sessions, u, content))

\* a button of the group menu drawn last is pressed
ToggleShownGroup(u) ==
    /\ u \in DOMAIN user_sessions
    /\ \E i \in 1..Len(user_sessions[u].available_groups) :
           Handled(u, "toggle_group_", user_sessions[u].available_groups[i],
                   toggle_group(user_sessions, u, user_sessions[u].available_groups[i]))

NextSelection ==
    \E u \in ProcessUsers :
        \/ Start(u)
        \/ LoadResults(u)
        \/ LoadStudents(u)
        \/ Upload(u)
        \/ Configure(u)
        \/ ToggleShownGroup(u)
        \/ SelectAllGroups(u)
        \/ DeselectAllGroups(u)

SpecSelection == Init /\ [][NextSelection]_vars

\* the groups of a loaded roster, none when no roster is loaded
RosterGroups(session) ==
    IF session.student_dict = None THEN {}
    ELSE {session.student_dict.items[i][2] : i \in 1..Len(session.student_dict.items)}

\* no element of the list occurs twice
NoDuplicates(l) == \A i, j \in 1..Len(l) : l[i] = l[j] => i = j

(* C21: in every session every group of selected_groups is a group of the  *)
(* roster loaded at the time, and selected_groups has no duplicates; in    *)
(* particular no group stays selected that a newly uploaded roster does    *)
(* not contain.                                                            *)
C21_SelectedGroupsOfRoster ==
    \A u \in DOMAIN user_sessions :
        /\ NoDuplicates(user_sessions[u].selected_groups)
        /\ \A i \in 1..Len(user_sessions[u].selected_groups) :
               user_sessions[u].selected_groups[i] \in RosterGroups(user_sessions[u])

=============================================================================
